---------------------------- MODULE Spec2Model ----------------------------
(***************************************************************************)
(* The JOTS section manager of jots-assistant: AddJotsCommand, the command *)
(* that collects the custom task lines of a journal note into one callout  *)
(* ("> [!jots]"), sorts them and writes the note back.                     *)
(*                                                                         *)
(* A text is a sequence of one-character strings, a line is a text without *)
(* "\n", and every regular expression of the source is an operator that    *)
(* scans the characters the way the expression does.  Array indices are    *)
(* the source's 0-based indices; At(lines, i) reads lines[i].              *)
(***************************************************************************)
EXTENDS Naturals, Integers, Sequences, FiniteSets, TLC

(***************************************************************************)
(* Bounds of the model.                                                    *)
(***************************************************************************)
\* number of lines the user types into a note before the command is run
MaxLines == 4
\* number of times the command is run on one note
MaxRuns == 2
\* number of calendar days the journal spans, numbered 1 .. MaxDays
MaxDays == 3

(***************************************************************************)
(* Characters and the string primitives of JavaScript that the source uses *)
(***************************************************************************)
NL == "\n"

\* the characters \s matches and trim() strips
WhiteSpace == {" ", "\t", "\n", "\r"}

LowerLetters == <<"a","b","c","d","e","f","g","h","i","j","k","l","m",
                  "n","o","p","q","r","s","t","u","v","w","x","y","z">>
UpperLetters == <<"A","B","C","D","E","F","G","H","I","J","K","L","M",
                  "N","O","P","Q","R","S","T","U","V","W","X","Y","Z">>
Digits == <<"0","1","2","3","4","5","6","7","8","9">>

Range(f) == { f[i] : i \in DOMAIN f }

LowerSet == Range(LowerLetters)
UpperSet == Range(UpperLetters)
DigitSet == Range(Digits)

\* [A-Za-z]
IsLetter(c) == c \in LowerSet \/ c \in UpperSet

\* \d
IsDigit(c) == c \in DigitSet

\* String.prototype.toUpperCase, one character
UpperChar(c) ==
    IF c \in LowerSet
    THEN UpperLetters[CHOOSE i \in DOMAIN LowerLetters : LowerLetters[i] = c]
    ELSE c

\* String.prototype.toLowerCase, one character
LowerChar(c) ==
    IF c \in UpperSet
    THEN LowerLetters[CHOOSE i \in DOMAIN UpperLetters : UpperLetters[i] = c]
    ELSE c

toLowerCase(s) == [i \in DOMAIN s |-> LowerChar(s[i])]

\* s.slice(n): s without its first n characters
Slice(s, n) == SubSeq(s, n + 1, Len(s))

\* s.startsWith(p)
startsWith(s, p) == Len(s) >= Len(p) /\ SubSeq(s, 1, Len(p)) = p

\* the text p occurs in s at (1-based) position k
OccursAt(s, p, k) == k >= 1 /\ k + Len(p) - 1 <= Len(s) /\ SubSeq(s, k, k + Len(p) - 1) = p

\* number of leading characters of s, from (1-based) position k, matched by \s*
RECURSIVE SkipWs(_, _)
SkipWs(s, k) == IF k <= Len(s) /\ s[k] \in WhiteSpace THEN SkipWs(s, k + 1) ELSE k

trimStart(s) == Slice(s, SkipWs(s, 1) - 1)

RECURSIVE trimEnd(_)
trimEnd(s) ==
    IF Len(s) > 0 /\ s[Len(s)] \in WhiteSpace THEN trimEnd(SubSeq(s, 1, Len(s) - 1)) ELSE s

trim(s) == trimEnd(trimStart(s))

\* s.split('\n'): always at least one line
\* the (1-based) position of the first line break of s from position k on,
\* or Len(s) + 1
NextBreak(s, k) ==
    IF \E j \in k .. Len(s) : s[j] = NL
    THEN CHOOSE j \in k .. Len(s) : s[j] = NL /\ \A q \in k .. (j - 1) : s[q] # NL
    ELSE Len(s) + 1

\* the lines of s from position k on, cur the line begun before k
RECURSIVE SplitFrom(_, _, _)
SplitAtBreak(s, k, cur, b) ==
    IF b > Len(s) THEN <<cur \o SubSeq(s, k, Len(s))>>
    ELSE <<cur \o SubSeq(s, k, b - 1)>> \o SplitFrom(s, b + 1, <<>>)

SplitFrom(s, k, cur) == SplitAtBreak(s, k, cur, NextBreak(s, k))

split(s) == SplitFrom(s, 1, <<>>)

\* lines.join('\n')
RECURSIVE join(_)
join(lines) ==
    IF Len(lines) = 0 THEN <<>>
    ELSE IF Len(lines) = 1 THEN lines[1]
    ELSE lines[1] \o <<NL>> \o join(Tail(lines))

\* s.replace(/\s+/g, ' ')
RECURSIVE CollapseFrom(_, _)
CollapseFrom(s, k) ==
    IF k > Len(s) THEN <<>>
    ELSE IF s[k] \in WhiteSpace THEN <<" ">> \o CollapseFrom(s, SkipWs(s, k))
    ELSE <<s[k]>> \o CollapseFrom(s, k + 1)

collapseWhitespace(s) == CollapseFrom(s, 1)

\* s.replace(/^>\s*/, '')
stripQuote(s) == IF Len(s) > 0 /\ s[1] = ">" THEN Slice(s, SkipWs(s, 2) - 1) ELSE s

\* Number("09"), for a string of digits
RECURSIVE Number(_)
Number(s) ==
    IF Len(s) = 0 THEN 0
    ELSE 10 * Number(SubSeq(s, 1, Len(s) - 1))
         + ((CHOOSE i \in DOMAIN Digits : Digits[i] = s[Len(s)]) - 1)

(***************************************************************************)
(* Arrays: the source's 0-based indices                                    *)
(***************************************************************************)
At(a, i) == a[i + 1]

\* a.splice(i, 1)
RemoveAt(a, i) == SubSeq(a, 1, i) \o SubSeq(a, i + 2, Len(a))

\* a.splice(i, 0, x)
InsertAt(a, i, x) == SubSeq(a, 1, i) \o <<x>> \o SubSeq(a, i + 1, Len(a))

\* a.splice(i, n, ...items)
Splice(a, i, n, items) == SubSeq(a, 1, i) \o items \o SubSeq(a, i + n + 1, Len(a))

(***************************************************************************)
(* State.                                                                  *)
(*   settings     this.plugin.settings: sectionName, sectionFormat,        *)
(*                taskLetters                                              *)
(*   fileContent  the text of the journal note in the vault                *)
(*   editorValue  the text in the editor of the active view                *)
(*   activeView   whether a markdown view is active                        *)
(*   content      the text the last run of the command read                *)
(*   newContent   what processFileContent returned to the last run         *)
(*   returned     what the last processFile returned                       *)
(*   writes       the texts the last run wrote (vault.modify or            *)
(*                editor.setValue), in order                               *)
(*   lastOp       the last operation                                       *)
(*   runs         how many times the command has run on the note           *)
(*   palette      the lines the user types from                            *)
(*   typed        how many lines the user has typed                        *)
(* and of AddJotsRangeCommand:                                             *)
(*   vault        the journal note of each day: its text, or no file       *)
(*   pc           where callback() stands                                  *)
(*   range        the range the modal has resolved to                      *)
(*   currentDate  the day the loop of callback() is at                     *)
(*   calls        the days processFile was called for, in call order       *)
(*   pending      the days whose processFile call has not completed yet    *)
(***************************************************************************)
VARIABLES settings, fileContent, editorValue, activeView,
          content, newContent, returned, writes, lastOp, runs, palette, typed,
          vault, pc, range, currentDate, calls, pending

rangeVars == <<vault, pc, range, currentDate, calls, pending>>

vars == <<settings, fileContent, editorValue, activeView,
          content, newContent, returned, writes, lastOp, runs, palette, typed, rangeVars>>

\* the value of an absent optional string (a regular expression's capture is
\* never the empty string here)
undefined == <<>>

(***************************************************************************)
(* AddJotsCommand, src/unnamed/part_001 (the front-matter-aware revision)  *)
(***************************************************************************)
FormatSuffix(format) ==
    CASE format = "Foldable-Open" -> <<"+">>
      [] format = "Foldable-Closed" -> <<"-">>
      [] OTHER -> <<>>

\* `> [!${sectionName.toLowerCase()}]`
BaseCallout == <<">", " ", "[", "!">> \o toLowerCase(settings.sectionName) \o <<"]">>

createCalloutString(format) == BaseCallout \o FormatSuffix(format)

\* /\(time::\s*(\d{1,2}:\d{2})\)/ tried at (1-based) position k: the capture,
\* or undefined
TimeMatchAt(s, k) ==
    LET open == <<"(", "t", "i", "m", "e", ":", ":">>
        p    == SkipWs(s, k + Len(open))
        Dig(j) == j <= Len(s) /\ IsDigit(s[j])
        Is(j, c) == j <= Len(s) /\ s[j] = c
        Rest(q) == Is(q, ":") /\ Dig(q + 1) /\ Dig(q + 2) /\ Is(q + 3, ")")
    IN  IF ~OccursAt(s, open, k) THEN undefined
        ELSE IF Dig(p) /\ Dig(p + 1) /\ Rest(p + 2) THEN SubSeq(s, p, p + 4)
        ELSE IF Dig(p) /\ Rest(p + 1) THEN SubSeq(s, p, p + 3)
        ELSE undefined

RECURSIVE TimeSearch(_, _)
TimeSearch(s, k) ==
    IF k > Len(s) THEN undefined
    ELSE IF TimeMatchAt(s, k) # undefined THEN TimeMatchAt(s, k)
    ELSE TimeSearch(s, k + 1)

extractTimeFromTask(taskLine) == TimeSearch(taskLine, 1)

\* "-\s*\[([A-Za-z])\]" at (1-based) position k: the letter, or undefined
TaskMarkAt(s, k) ==
    LET b == SkipWs(s, k + 1)
    IN  IF /\ k <= Len(s) /\ s[k] = "-"
           /\ b + 2 <= Len(s) /\ s[b] = "[" /\ IsLetter(s[b + 1]) /\ s[b + 2] = "]"
        THEN <<s[b + 1]>>
        ELSE undefined

\* /^(>?\s*)?-\s*\[([A-Za-z])\]/ : capture 2, or undefined
TaskPatternLetter(line) ==
    LET q == IF Len(line) > 0 /\ line[1] = ">" THEN 2 ELSE 1
    IN  TaskMarkAt(line, SkipWs(line, q))

\* /^>\s*-\s*\[([A-Za-z])\]/ : capture 1, or undefined
QuotedTaskLetter(line) ==
    IF Len(line) > 0 /\ line[1] = ">" THEN TaskMarkAt(line, SkipWs(line, 2)) ELSE undefined

\* getTaskLetter without toUpperCase: the letter as it is written
getTaskLetter_NoUpperCase(taskLine) == QuotedTaskLetter(taskLine)

getTaskLetter(taskLine) ==
    LET m == QuotedTaskLetter(taskLine)
    IN  IF m # undefined THEN <<UpperChar(m[1])>> ELSE undefined

\* a.time.split(':').map(Number), then hours * 60 + minutes
TotalMinutes(time) ==
    LET c == CHOOSE i \in DOMAIN time : time[i] = ":"
    IN  Number(SubSeq(time, 1, c - 1)) * 60 + Number(SubSeq(time, c + 1, Len(time)))

\* the comparator with its operands exchanged: latest first
CompareTime_Descending(a, b) ==
    IF a.time = undefined \/ b.time = undefined THEN 0
    ELSE TotalMinutes(b.time) - TotalMinutes(a.time)

\* the comparator of withTime.sort
CompareTime(a, b) ==
    IF a.time = undefined \/ b.time = undefined THEN 0
    ELSE TotalMinutes(a.time) - TotalMinutes(b.time)

\* a sort that puts x before the elements it compares equal to
RECURSIVE InsertSorted_Unstable(_, _)
InsertSorted_Unstable(sorted, x) ==
    IF Len(sorted) = 0 THEN <<x>>
    ELSE IF CompareTime(x, sorted[Len(sorted)]) > 0 THEN Append(sorted, x)
    ELSE Append(InsertSorted_Unstable(SubSeq(sorted, 1, Len(sorted) - 1), x), sorted[Len(sorted)])

\* Array.prototype.sort (stable): x goes behind every element it does not
\* compare below
RECURSIVE InsertSorted(_, _)
InsertSorted(sorted, x) ==
    IF Len(sorted) = 0 THEN <<x>>
    ELSE IF CompareTime(x, sorted[Len(sorted)]) >= 0 THEN Append(sorted, x)
    ELSE Append(InsertSorted(SubSeq(sorted, 1, Len(sorted) - 1), x), sorted[Len(sorted)])

RECURSIVE SortByTime(_)
SortByTime(tasks) ==
    IF Len(tasks) = 0 THEN <<>>
    ELSE InsertSorted(SortByTime(SubSeq(tasks, 1, Len(tasks) - 1)), tasks[Len(tasks)])

\* tasksByLetter[letter], built by the forEach over withoutTime
TasksByLetter(withoutTime, letter) ==
    SelectSeq(withoutTime, LAMBDA t : getTaskLetter(t.line) = letter)

\* the untimed tasks pushed as they were found, not group by group
OrderGroups_AsFound(withoutTime, letters) == withoutTime

\* settings.taskLetters.forEach: the groups in settings order
RECURSIVE OrderGroups(_, _)
OrderGroups(withoutTime, letters) ==
    IF Len(letters) = 0 THEN <<>>
    ELSE TasksByLetter(withoutTime, Head(letters)) \o OrderGroups(withoutTime, Tail(letters))

sortTasks(tasks) ==
    LET withTime    == SelectSeq(tasks, LAMBDA t : t.time # undefined)
        withoutTime == SelectSeq(tasks, LAMBDA t : t.time = undefined)
    IN  SortByTime(withTime) \o OrderGroups(withoutTime, settings.taskLetters)

\* `^> \[!${sectionName.toLowerCase()}\](?:[+\-]|\s|$)`
MatchesCalloutPattern(line) ==
    /\ startsWith(line, BaseCallout)
    /\ \/ Len(line) = Len(BaseCallout)
       \/ line[Len(BaseCallout) + 1] \in {"+", "-"} \cup WhiteSpace

\* lines.findIndex(line => calloutPattern.test(line)): the first 0-based
\* index from i on, or -1
RECURSIVE FindCalloutFrom(_, _)
FindCalloutFrom(lines, i) ==
    IF i >= Len(lines) THEN -1
    ELSE IF MatchesCalloutPattern(At(lines, i)) THEN i
    ELSE FindCalloutFrom(lines, i + 1)

findExistingCalloutIndex(lines) == FindCalloutFrom(lines, 0)

\* the backward loop of isTaskInCallout: the nearest section header before i
RECURSIVE NearestCalloutStart(_, _)
NearestCalloutStart(lines, i) ==
    IF i < 0 THEN -1
    ELSE IF MatchesCalloutPattern(trim(At(lines, i))) THEN i
    ELSE NearestCalloutStart(lines, i - 1)

\* the forward loop that finds where a callout ends: the index of the last
\* quoted line after the header at start, or init when the loop sets nothing
RECURSIVE CalloutEndFrom(_, _, _)
CalloutEndFrom(lines, i, init) ==
    IF i >= Len(lines) THEN init
    ELSE IF ~startsWith(trimStart(At(lines, i)), <<">">>) THEN i - 1
    ELSE IF i = Len(lines) - 1 THEN i
    ELSE CalloutEndFrom(lines, i + 1, init)

\* isTaskInCallout with a pattern that takes the header of any callout
isTaskInCallout_AnyCallout(lines, taskLineIndex) ==
    LET starts == { i \in 0 .. taskLineIndex - 1 :
                        startsWith(trim(At(lines, i)), <<">", " ", "[", "!">>) }
    IN  /\ starts # {}
        /\ taskLineIndex <= CalloutEndFrom(lines, 1 + CHOOSE i \in starts :
                                                       \A q \in starts : i >= q, -1)

isTaskInCallout(lines, taskLineIndex) ==
    LET nearestCalloutStart == NearestCalloutStart(lines, taskLineIndex - 1)
        nearestCalloutEnd   == CalloutEndFrom(lines, nearestCalloutStart + 1, -1)
    IN  IF nearestCalloutStart # -1
        THEN taskLineIndex > nearestCalloutStart /\ taskLineIndex <= nearestCalloutEnd
        ELSE FALSE

getCalloutFormatFromLine(line) ==
    IF startsWith(line, BaseCallout \o <<"+">>) THEN "Foldable-Open"
    ELSE IF startsWith(line, BaseCallout \o <<"-">>) THEN "Foldable-Closed"
    ELSE "Plain"

\* updateCalloutFormat: the array after the call, and what the call returns
updateCalloutFormat(lines, calloutIndex) ==
    LET currentFormat == getCalloutFormatFromLine(At(lines, calloutIndex))
        desiredFormat == settings.sectionFormat
    IN  IF currentFormat # desiredFormat
        THEN [lines |-> [lines EXCEPT ![calloutIndex + 1] =
                            BaseCallout \o FormatSuffix(desiredFormat)],
              ret |-> TRUE]
        ELSE [lines |-> lines, ret |-> FALSE]

\* the loop of findTasksToMove from index i on
RECURSIVE FindTasksFrom(_, _, _, _)
FindTasksFrom(lines, i, tasksToMove, seenTasks) ==
    IF i >= Len(lines) THEN tasksToMove
    ELSE
      LET line      == At(lines, i)
          taskMatch == TaskPatternLetter(line)
          taskLine  == trim(stripQuote(trim(line)))
          formattedTask  == <<">", " ">> \o taskLine
          normalizedTask == collapseWhitespace(formattedTask)
      IN  IF /\ taskMatch # undefined
             /\ \E j \in DOMAIN settings.taskLetters :
                    settings.taskLetters[j] = <<UpperChar(taskMatch[1])>>
             /\ ~isTaskInCallout(lines, i)
             /\ normalizedTask \notin seenTasks
          THEN FindTasksFrom(lines, i + 1,
                   Append(tasksToMove, [line |-> formattedTask, index |-> i,
                                        time |-> extractTimeFromTask(formattedTask)]),
                   seenTasks \cup {normalizedTask})
          ELSE FindTasksFrom(lines, i + 1, tasksToMove, seenTasks)

findTasksToMove(lines) == sortTasks(FindTasksFrom(lines, 0, <<>>, {}))

\* /^---\n([\s\S]*?)\n---/ : the length of match [0], or 0 when there is no
\* match.  The lazy group ends at the first "\n---" from position k on.
RECURSIVE YamlCloseFrom(_, _)
YamlCloseFrom(text, k) ==
    IF k + 3 > Len(text) THEN 0
    ELSE IF OccursAt(text, <<NL, "-", "-", "-">>, k) THEN k + 3
    ELSE YamlCloseFrom(text, k + 1)

YamlMatchLength(text) ==
    IF startsWith(text, <<"-", "-", "-", NL>>) THEN YamlCloseFrom(text, 5) ELSE 0

\* the while loop that moves the lines before the first task line into
\* contentBeforeTasks (i stays 0)
RECURSIVE ContentBeforeTasksLoop(_, _)
ContentBeforeTasksLoop(lines, contentBeforeTasks) ==
    IF Len(lines) > 0 /\ TaskPatternLetter(At(lines, 0)) = undefined
    THEN ContentBeforeTasksLoop(RemoveAt(lines, 0), Append(contentBeforeTasks, At(lines, 0)))
    ELSE [lines |-> lines, contentBeforeTasks |-> contentBeforeTasks]

\* while (a.length > 0 && a[a.length - 1].trim() === '') a.pop()
RECURSIVE PopTrailingBlank(_)
PopTrailingBlank(a) ==
    IF Len(a) > 0 /\ trim(a[Len(a)]) = <<>> THEN PopTrailingBlank(SubSeq(a, 1, Len(a) - 1)) ELSE a

\* task.line.replace(/^>\s*/, '').trim().replace(/\s+/g, ' ')
NormalizeTask(line) == collapseWhitespace(trim(stripQuote(line)))

\* the loop that removes the moved tasks and their adjacent empty lines,
\* from index i down
RECURSIVE RemoveTasksLoop(_, _, _, _)
RemoveTasksLoop(lines, i, changed, normalizedTasksToRemove) ==
    IF i < 0 THEN [lines |-> lines, changed |-> changed]
    ELSE
      LET trimmedLine == trim(At(lines, i))
      IN  IF trimmedLine # <<>> /\ NormalizeTask(trimmedLine) \in normalizedTasksToRemove
          THEN LET l1 == RemoveAt(lines, i)
                   before == i > 0 /\ trim(At(l1, i - 1)) = <<>>
                   l2 == IF before THEN RemoveAt(l1, i - 1) ELSE l1
                   i2 == IF before THEN i - 1 ELSE i
                   after == i2 < Len(l2) /\ trim(At(l2, i2)) = <<>>
                   l3 == IF after THEN RemoveAt(l2, i2) ELSE l2
               IN  RemoveTasksLoop(l3, i2 - 1, TRUE, normalizedTasksToRemove)
          ELSE RemoveTasksLoop(lines, i - 1, changed, normalizedTasksToRemove)

\* the loop that removes the remaining consecutive empty lines, from index i down
RECURSIVE CleanupEmptyLoop(_, _)
CleanupEmptyLoop(lines, i) ==
    IF i < 0 THEN lines
    ELSE IF /\ trim(At(lines, i)) = <<>>
            /\ \/ i = Len(lines) - 1
               \/ (i > 0 /\ trim(At(lines, i - 1)) = <<>>)
         THEN CleanupEmptyLoop(RemoveAt(lines, i), i - 1)
         ELSE CleanupEmptyLoop(lines, i - 1)

\* the loop that extracts the existing tasks of the callout, indices i..last
RECURSIVE ExistingTasksLoop(_, _, _)
ExistingTasksLoop(lines, i, last) ==
    IF i > last THEN <<>>
    ELSE LET line == trim(At(lines, i))
         IN  IF QuotedTaskLetter(line) # undefined
             THEN <<[line |-> line, index |-> i, time |-> extractTimeFromTask(line)]>>
                  \o ExistingTasksLoop(lines, i + 1, last)
             ELSE ExistingTasksLoop(lines, i + 1, last)

\* the while loop that removes the blank lines before the callout
RECURSIVE BlankBeforeCalloutLoop(_, _, _)
BlankBeforeCalloutLoop(lines, existingCalloutIndex, calloutEndIndex) ==
    IF existingCalloutIndex > 0 /\ trim(At(lines, existingCalloutIndex - 1)) = <<>>
    THEN BlankBeforeCalloutLoop(RemoveAt(lines, existingCalloutIndex - 1),
                                existingCalloutIndex - 1, calloutEndIndex - 1)
    ELSE [lines |-> lines, existingCalloutIndex |-> existingCalloutIndex,
          calloutEndIndex |-> calloutEndIndex]

TaskLines(tasks) == [i \in DOMAIN tasks |-> tasks[i].line]

\* lines.splice(existingCalloutIndex + 1, calloutEndIndex - existingCalloutIndex,
\*              ...allTasks.map(task => task.line))
ReplaceCalloutContent(c, allTasks) ==
    Splice(c.lines, c.existingCalloutIndex + 1, c.calloutEndIndex - c.existingCalloutIndex,
           TaskLines(allTasks))

\* the empty line put back before a callout that is not at the start
BlankBeforeCallout(b) ==
    IF b.existingCalloutIndex > 0
    THEN [lines |-> InsertAt(b.lines, b.existingCalloutIndex, <<>>),
          existingCalloutIndex |-> b.existingCalloutIndex + 1,
          calloutEndIndex |-> b.calloutEndIndex + 1]
    ELSE b

\* the spacing before the callout: exactly one blank line
SpacingBeforeCallout(lines, existingCalloutIndex, calloutEndIndex) ==
    IF existingCalloutIndex > 0
    THEN BlankBeforeCallout(BlankBeforeCalloutLoop(lines, existingCalloutIndex, calloutEndIndex))
    ELSE [lines |-> lines, existingCalloutIndex |-> existingCalloutIndex,
          calloutEndIndex |-> calloutEndIndex]

\* from "Update the callout format if needed" on: upd is what
\* updateCalloutFormat did
MergeIntoCallout(upd, existingCalloutIndex, calloutEndIndex, existingTasks, tasksToMove, changed0) ==
    IF Len(tasksToMove) > 0 \/ Len(existingTasks) > 0
    THEN [lines |-> ReplaceCalloutContent(
                        SpacingBeforeCallout(upd.lines, existingCalloutIndex, calloutEndIndex),
                        sortTasks(existingTasks \o tasksToMove)),
          changed |-> TRUE]
    ELSE [lines |-> upd.lines, changed |-> upd.ret \/ changed0]

\* the branch from the extent of the callout on
ExistingCalloutExtent(lines0, existingCalloutIndex, calloutEndIndex, tasksToMove, changed0) ==
    MergeIntoCallout(updateCalloutFormat(lines0, existingCalloutIndex),
                     existingCalloutIndex, calloutEndIndex,
                     ExistingTasksLoop(lines0, existingCalloutIndex + 1, calloutEndIndex),
                     tasksToMove, changed0)

\* the branch from the recalculated index of the callout on
ExistingCalloutAt(lines0, existingCalloutIndex, tasksToMove, changed0) ==
    ExistingCalloutExtent(lines0, existingCalloutIndex,
                          CalloutEndFrom(lines0, existingCalloutIndex + 1, existingCalloutIndex),
                          tasksToMove, changed0)

\* the branch of processFileContent for an existing callout
ExistingCalloutBranch(lines0, tasksToMove, changed0) ==
    ExistingCalloutAt(lines0, findExistingCalloutIndex(lines0), tasksToMove, changed0)

\* the branch that creates the callout without the empty line before it
NewCalloutBranch_NoSeparator(lines0, tasksToMove) ==
    LET calloutString == createCalloutString(settings.sectionFormat)
        sortedTasks == join(TaskLines(tasksToMove))
    IN  [lines |-> Append(PopTrailingBlank(lines0), calloutString) \o split(sortedTasks),
         changed |-> TRUE]

\* the branch of processFileContent that creates the callout
NewCalloutBranch(lines0, tasksToMove) ==
    LET calloutString == createCalloutString(settings.sectionFormat)
        sortedTasks == join(TaskLines(tasksToMove))
        l1 == PopTrailingBlank(lines0)
        l2 == IF Len(l1) > 0 THEN Append(l1, <<>>) ELSE l1
    IN  [lines |-> Append(l2, calloutString) \o split(sortedTasks), changed |-> TRUE]

Null == [isNull |-> TRUE, text |-> <<>>]
StringResult(text) == [isNull |-> FALSE, text |-> text]

\* the end of processFileContent: the file rebuilt from the front matter, the
\* content before the first task and the processed lines
ReconstructFile(yamlFrontmatter, contentBeforeTasks, lines) ==
    LET withYaml == IF yamlFrontmatter # <<>> THEN <<yamlFrontmatter, <<>>>> ELSE <<>>
        withTitle == IF Len(contentBeforeTasks) > 0
                     THEN withYaml \o contentBeforeTasks
                          \o (IF Len(lines) > 0 THEN << <<>> >> ELSE <<>>)
                     ELSE withYaml
        finalContent == PopTrailingBlank(withTitle \o lines)
    IN  join(finalContent)

\* yamlMatch[0], or the empty text for yamlFrontmatter = null (a match is
\* never empty)
YamlFrontmatter(text) == SubSeq(text, 1, YamlMatchLength(text))

\* contentWithoutYaml without the slice: the front matter stays in the content
ContentWithoutYaml_KeepsYaml(text) == trim(text)

\* contentWithoutYaml
ContentWithoutYaml(text) ==
    IF YamlMatchLength(text) > 0 THEN trim(Slice(text, YamlMatchLength(text))) ELSE trim(text)

\* line => line.trim().startsWith('#')
IsTitleLine(line) == startsWith(trim(line), <<"#">>)

\* lines.findIndex(line => line.trim().startsWith('#')): the first 0-based
\* index from i on, or -1
RECURSIVE FindTitleFrom(_, _)
FindTitleFrom(lines, i) ==
    IF i >= Len(lines) THEN -1
    ELSE IF IsTitleLine(At(lines, i)) THEN i
    ELSE FindTitleFrom(lines, i + 1)

\* the title line sought, and the content before the first task set aside
SplitContentBeforeTasks(lines) ==
    IF FindTitleFrom(lines, 0) # -1
    THEN ContentBeforeTasksLoop(lines, <<>>)
    ELSE [lines |-> lines, contentBeforeTasks |-> <<>>]

\* the two loops that take the moved tasks and the empty lines out of lines
CleanupAfterRemoval(removed) ==
    [lines |-> CleanupEmptyLoop(removed.lines, Len(removed.lines) - 1),
     changed |-> removed.changed]

RemoveMovedTasks(lines, tasksToMove) ==
    CleanupAfterRemoval(
        RemoveTasksLoop(lines, Len(lines) - 1, FALSE,
                        { NormalizeTask(tasksToMove[j].line) : j \in DOMAIN tasksToMove }))

\* "Now handle the callout section": existingCalloutIndex is the index found
\* before the removals, cleaned the lines after them
HandleCallout(existingCalloutIndex, tasksToMove, cleaned) ==
    IF existingCalloutIndex # -1
    THEN ExistingCalloutBranch(cleaned.lines, tasksToMove, cleaned.changed)
    ELSE IF Len(tasksToMove) > 0
    THEN NewCalloutBranch(cleaned.lines, tasksToMove)
    ELSE cleaned

\* the end of processFileContent without the test of changed
ReturnResult_AlwaysText(yamlFrontmatter, contentBeforeTasks, r) ==
    StringResult(ReconstructFile(yamlFrontmatter, contentBeforeTasks, r.lines))

\* if (!changed) return null, else the file reconstructed
ReturnResult(yamlFrontmatter, contentBeforeTasks, r) ==
    IF ~r.changed THEN Null
    ELSE StringResult(ReconstructFile(yamlFrontmatter, contentBeforeTasks, r.lines))

\* processFileContent from findTasksToMove on
ProcessLines(yamlFrontmatter, contentBeforeTasks, lines, tasksToMove) ==
    ReturnResult(yamlFrontmatter, contentBeforeTasks,
                 HandleCallout(findExistingCalloutIndex(lines), tasksToMove,
                               RemoveMovedTasks(lines, tasksToMove)))

\* processFileContent from the title line on
ProcessContent(yamlFrontmatter, pre) ==
    ProcessLines(yamlFrontmatter, PopTrailingBlank(pre.contentBeforeTasks), pre.lines,
                 findTasksToMove(pre.lines))

processFileContent(text) ==
    ProcessContent(YamlFrontmatter(text), SplitContentBeforeTasks(split(ContentWithoutYaml(text))))

(***************************************************************************)
(* processFile and processActiveFile: what each reads, writes and returns  *)
(***************************************************************************)
\* processFile with the null check lost: the result is written whatever it is
processFile_WritesNull(text) ==
    [newContent |-> processFileContent(text),
     modified |-> <<processFileContent(text).text>>, ret |-> TRUE]

\* if (newContent !== null) { await vault.modify(file, newContent); return true; }
\* return false;
ModifyIfResult(result) ==
    IF ~result.isNull
    THEN [newContent |-> result, modified |-> <<result.text>>, ret |-> TRUE]
    ELSE [newContent |-> result, modified |-> <<>>, ret |-> FALSE]

\* processFile(file), given the text vault.read returns: the texts handed to
\* vault.modify, and the value returned
processFile(text) == ModifyIfResult(processFileContent(text))

\* if (newContent !== null) { activeView.editor.setValue(newContent); }
SetValueIfResult(result) ==
    IF ~result.isNull
    THEN [newContent |-> result, setValue |-> <<result.text>>]
    ELSE [newContent |-> result, setValue |-> <<>>]

\* processActiveFile(), given the text editor.getValue returns: the texts
\* handed to editor.setValue
processActiveFile(text) == SetValueIfResult(processFileContent(text))

(***************************************************************************)
(* AddJotsCommand, src/unnamed/part_002 (the latest revision, the one that *)
(* exports addJotsToJournal).  createCalloutString, extractTimeFromTask,   *)
(* getTaskLetter, sortTasks and findExistingCalloutIndex read as in        *)
(* part_001; the section is taken out of the lines and rebuilt at the end. *)
(***************************************************************************)
\* the loop of findJotsSection from index i on: endIndex, init when the loop
\* sets nothing
RECURSIVE JotsSectionEnd(_, _, _)
JotsSectionEnd(lines, i, init) ==
    IF i >= Len(lines) THEN init
    ELSE IF ~startsWith(trim(At(lines, i)), <<">", " ", "-">>) THEN i - 1
    ELSE IF i = Len(lines) - 1 THEN i
    ELSE JotsSectionEnd(lines, i + 1, init)

\* the items findJotsSection pushes, lines i .. last
RECURSIVE JotsSectionItems(_, _, _)
JotsSectionItems(lines, i, last) ==
    IF i > last THEN <<>>
    ELSE IF QuotedTaskLetter(trim(At(lines, i))) # undefined
    THEN <<[line |-> trim(At(lines, i)), index |-> i, time |-> extractTimeFromTask(trim(At(lines, i)))]>>
             \o JotsSectionItems(lines, i + 1, last)
    ELSE JotsSectionItems(lines, i + 1, last)

JotsSectionFrom(lines, headerIndex, endIndex) ==
    [isNull |-> FALSE, startIndex |-> headerIndex, endIndex |-> endIndex,
     items |-> JotsSectionItems(lines, headerIndex + 1, endIndex)]

JotsSectionAt(lines, headerIndex) ==
    IF headerIndex = -1
    THEN [isNull |-> TRUE, startIndex |-> -1, endIndex |-> -1, items |-> <<>>]
    ELSE JotsSectionFrom(lines, headerIndex, JotsSectionEnd(lines, headerIndex + 1, headerIndex))

findJotsSection(lines) == JotsSectionAt(lines, FindCalloutFrom(lines, 0))

\* the loop of findMatchingTasks from index i on
RECURSIVE MatchingTasksFrom(_, _, _, _)
MatchingTasksFrom(lines, i, tasks, seenTasks) ==
    IF i >= Len(lines) THEN tasks
    ELSE IF /\ TaskPatternLetter(trim(At(lines, i))) # undefined
            /\ \E j \in DOMAIN settings.taskLetters :
                   settings.taskLetters[j] = <<UpperChar(TaskPatternLetter(trim(At(lines, i)))[1])>>
            /\ trim(stripQuote(trim(At(lines, i)))) \notin seenTasks
    THEN MatchingTasksFrom(lines, i + 1,
             Append(tasks, [line |-> <<">", " ">> \o trim(stripQuote(trim(At(lines, i)))),
                            index |-> i,
                            time |-> extractTimeFromTask(trim(At(lines, i)))]),
             seenTasks \cup {trim(stripQuote(trim(At(lines, i))))})
    ELSE MatchingTasksFrom(lines, i + 1, tasks, seenTasks)

findMatchingTasks(lines) == MatchingTasksFrom(lines, 0, <<>>, {})

\* the loop of removeMatchingTasks from index i down, after the splice of a
\* task line: the blank line before it and the blank line after it go too
RECURSIVE RemoveMatchingFrom(_, _, _)
RemoveAfterMatch(l2, i, taskStrings) ==
    IF i < Len(l2) /\ trim(At(l2, i)) = <<>>
    THEN RemoveMatchingFrom(RemoveAt(l2, i), i - 1, taskStrings)
    ELSE RemoveMatchingFrom(l2, i - 1, taskStrings)

RemoveBeforeMatch(l1, i, taskStrings) ==
    IF i > 0 /\ trim(At(l1, i - 1)) = <<>>
    THEN RemoveAfterMatch(RemoveAt(l1, i - 1), i - 1, taskStrings)
    ELSE RemoveAfterMatch(l1, i, taskStrings)

RemoveMatchingFrom(lines, i, taskStrings) ==
    IF i < 0 THEN lines
    ELSE IF trim(stripQuote(trim(At(lines, i)))) \in taskStrings
    THEN RemoveBeforeMatch(RemoveAt(lines, i), i, taskStrings)
    ELSE RemoveMatchingFrom(lines, i - 1, taskStrings)

removeMatchingTasks(lines, tasks) ==
    RemoveMatchingFrom(lines, Len(lines) - 1, { trim(stripQuote(tasks[j].line)) : j \in DOMAIN tasks })

\* the for loop of cleanupEmptyLines from index i down to 1
RECURSIVE CleanupPairsFrom(_, _)
CleanupPairsFrom(lines, i) ==
    IF i <= 0 THEN lines
    ELSE IF trim(At(lines, i)) = <<>> /\ trim(At(lines, i - 1)) = <<>>
    THEN CleanupPairsFrom(RemoveAt(lines, i), i - 1)
    ELSE CleanupPairsFrom(lines, i - 1)

cleanupEmptyLines(lines) == PopTrailingBlank(CleanupPairsFrom(lines, Len(lines) - 1))

\* the blank line before the section, if the last line is not blank
WithBlankBeforeSection(finalLines) ==
    IF Len(finalLines) > 0 /\ trim(finalLines[Len(finalLines)]) # <<>>
    THEN Append(finalLines, <<>>)
    ELSE finalLines

\* Step 4: the front matter, the lines, then the section if there are tasks
BuildFinalContent(yamlFrontmatter, lines, allTasks) ==
    IF Len(allTasks) > 0
    THEN join(WithBlankBeforeSection((IF yamlFrontmatter # <<>> THEN <<yamlFrontmatter, <<>>>> ELSE <<>>) \o lines)
              \o <<createCalloutString(settings.sectionFormat)>>
              \o TaskLines(sortTasks(allTasks)))
    ELSE join((IF yamlFrontmatter # <<>> THEN <<yamlFrontmatter, <<>>>> ELSE <<>>) \o lines)

\* Step 2 and 3: the matching tasks collected and removed, the lines cleaned
CollectMatching(yamlFrontmatter, lines, sectionItems, matchingTasks, changed) ==
    IF Len(matchingTasks) = 0 /\ ~changed THEN Null
    ELSE StringResult(BuildFinalContent(yamlFrontmatter,
             cleanupEmptyLines(IF Len(matchingTasks) > 0 THEN removeMatchingTasks(lines, matchingTasks) ELSE lines),
             sectionItems \o matchingTasks))

\* Step 1: the existing section taken out of lines
WithoutSection(yamlFrontmatter, lines, existingSection) ==
    IF existingSection.isNull
    THEN CollectMatching(yamlFrontmatter, lines, <<>>, findMatchingTasks(lines), FALSE)
    ELSE CollectMatching(yamlFrontmatter,
             Splice(lines, existingSection.startIndex, existingSection.endIndex - existingSection.startIndex + 1, <<>>),
             existingSection.items,
             findMatchingTasks(Splice(lines, existingSection.startIndex, existingSection.endIndex - existingSection.startIndex + 1, <<>>)),
             TRUE)

SectionOfLines(yamlFrontmatter, lines) == WithoutSection(yamlFrontmatter, lines, findJotsSection(lines))

\* processFileContent of part_002
processFileContentLatest(text) == SectionOfLines(YamlFrontmatter(text), split(ContentWithoutYaml(text)))

\* addJotsToJournal(plugin, file): new AddJotsCommand(plugin).processFile(file)
addJotsToJournal(text) == ModifyIfResult(processFileContentLatest(text))

(***************************************************************************)
(* AddJotsCommand, src/src/commands/addJots.ts: the revision that blanks   *)
(* the source lines of the moved entries and filters the empty lines out.  *)
(* createCalloutString, extractTimeFromTask, getTaskLetter, sortTasks,     *)
(* findExistingCalloutIndex and updateCalloutFormat read as in part_001.   *)
(***************************************************************************)
\* line.match(/^>\s*\[!.*\]/): the header of any callout
MatchesAnyCallout(line) ==
    /\ startsWith(line, <<">">>)
    /\ startsWith(trimStart(Slice(line, 1)), <<"[", "!">>)
    /\ \E k \in DOMAIN trimStart(Slice(line, 1)) : k > 2 /\ trimStart(Slice(line, 1))[k] = "]"

\* the backward loop of isTaskInCallout of addJots.ts, from index i down
RECURSIVE InCalloutBackFrom(_, _, _)
InCalloutBackFrom(lines, i, taskLineIndex) ==
    IF i < 0 THEN FALSE
    ELSE IF MatchesAnyCallout(trim(At(lines, i)))
    THEN \A j \in (i + 1) .. taskLineIndex : startsWith(trimStart(At(lines, j)), <<">">>)
    ELSE IF ~startsWith(trim(At(lines, i)), <<">">>) THEN FALSE
    ELSE InCalloutBackFrom(lines, i - 1, taskLineIndex)

isTaskInCalloutTs(lines, taskLineIndex) == InCalloutBackFrom(lines, taskLineIndex - 1, taskLineIndex)

\* const formattedTask = taskLine.startsWith('>') ? taskLine : `> ${taskLine}`
FormattedTaskTs(taskLine) == IF startsWith(taskLine, <<">">>) THEN taskLine ELSE <<">", " ">> \o taskLine

\* the test of the loop of findTasksToMove of addJots.ts on the line at i
IsTaskToMoveTs(lines, i) ==
    /\ TaskPatternLetter(At(lines, i)) # undefined
    /\ \E j \in DOMAIN settings.taskLetters : settings.taskLetters[j] = <<UpperChar(TaskPatternLetter(At(lines, i))[1])>>
    /\ ~startsWith(trimStart(At(lines, i)), <<">">>) \/ ~isTaskInCalloutTs(lines, i)

\* the loop of findTasksToMove of addJots.ts from index i on
RECURSIVE FindTasksTsFrom(_, _)
FindTasksTsFrom(lines, i) ==
    IF i >= Len(lines) THEN <<>>
    ELSE IF IsTaskToMoveTs(lines, i)
    THEN <<[line |-> FormattedTaskTs(trim(At(lines, i))), index |-> i,
            time |-> extractTimeFromTask(FormattedTaskTs(trim(At(lines, i))))]>>
         \o FindTasksTsFrom(lines, i + 1)
    ELSE FindTasksTsFrom(lines, i + 1)

findTasksToMoveTs(lines) == sortTasks(FindTasksTsFrom(lines, 0))

\* while (calloutEndIndex < lines.length && lines[calloutEndIndex].trimStart().startsWith('>')):
\* the value of calloutEndIndex behind the loop
RECURSIVE CalloutEndTs(_, _)
CalloutEndTs(lines, calloutEndIndex) ==
    IF calloutEndIndex < Len(lines) /\ startsWith(trimStart(At(lines, calloutEndIndex)), <<">">>)
    THEN CalloutEndTs(lines, calloutEndIndex + 1)
    ELSE calloutEndIndex

\* for (...) lines[tasksToMove[i].index] = '': an index at or behind the end
\* of the array adds empty strings and holes, which the filter behind the
\* branches drops again
BlankMovedLines(lines, tasksToMove) ==
    [k \in DOMAIN lines |-> IF \E j \in DOMAIN tasksToMove : tasksToMove[j].index = k - 1 THEN <<>> ELSE lines[k]]

\* the two splices that replace the content of the callout with allTasks
ReplaceCalloutTs(lines, existingCalloutIndex, calloutEndIndex, allTasks) ==
    Splice(lines, existingCalloutIndex + 1, calloutEndIndex - existingCalloutIndex - 1, TaskLines(allTasks))

\* the branch for an existing callout from the tasks found in it on
MergeIntoCalloutTs(upd, existingCalloutIndex, calloutEndIndex, existingTasks, tasksToMove) ==
    IF Len(tasksToMove) > 0 \/ Len(existingTasks) > 0
    THEN [lines |-> BlankMovedLines(ReplaceCalloutTs(upd.lines, existingCalloutIndex, calloutEndIndex,
                                                     sortTasks(existingTasks \o tasksToMove)),
                                    tasksToMove),
          changed |-> TRUE]
    ELSE [lines |-> upd.lines, changed |-> upd.ret]

\* the branch for an existing callout from the end of the callout on
ExistingCalloutTs(upd, existingCalloutIndex, calloutEndIndex, tasksToMove) ==
    MergeIntoCalloutTs(upd, existingCalloutIndex, calloutEndIndex,
                       ExistingTasksLoop(upd.lines, existingCalloutIndex + 1, calloutEndIndex - 1),
                       tasksToMove)

\* the branch that creates the callout: one element with the header and the
\* tasks is pushed
NewCalloutTs(lines, tasksToMove) ==
    [lines |-> Append(BlankMovedLines(lines, tasksToMove),
                      createCalloutString(settings.sectionFormat) \o <<NL>> \o join(TaskLines(tasksToMove))),
     changed |-> TRUE]

HandleCalloutTs(lines, existingCalloutIndex, tasksToMove) ==
    IF existingCalloutIndex # -1
    THEN ExistingCalloutTs(updateCalloutFormat(lines, existingCalloutIndex), existingCalloutIndex,
                           CalloutEndTs(updateCalloutFormat(lines, existingCalloutIndex).lines, existingCalloutIndex + 1),
                           tasksToMove)
    ELSE IF Len(tasksToMove) > 0 THEN NewCalloutTs(lines, tasksToMove)
    ELSE [lines |-> lines, changed |-> FALSE]

\* the spacing before the callout: finalCalloutIndex is a const, so after one
\* blank line before it is removed the loop tests the header itself and
\* ends, and the empty line is put in at the old index
SpacingBeforeFinalCallout(cleanedLines, finalCalloutIndex) ==
    IF finalCalloutIndex > 0
    THEN IF trim(At(cleanedLines, finalCalloutIndex - 1)) = <<>>
         THEN InsertAt(RemoveAt(cleanedLines, finalCalloutIndex - 1), finalCalloutIndex, <<>>)
         ELSE InsertAt(cleanedLines, finalCalloutIndex, <<>>)
    ELSE cleanedLines

\* "Clean up the content and handle spacing": lines.filter(line => line !== '')
CleanedLinesTs(lines) == SelectSeq(lines, LAMBDA line : line # <<>>)

\* the end of processFileContent of addJots.ts
ReturnResultTs(r) ==
    IF ~r.changed THEN Null
    ELSE StringResult(join(SpacingBeforeFinalCallout(CleanedLinesTs(r.lines), FindCalloutFrom(CleanedLinesTs(r.lines), 0))))

ProcessLinesTs(lines) == ReturnResultTs(HandleCalloutTs(lines, findExistingCalloutIndex(lines), findTasksToMoveTs(lines)))

processFileContentTs(text) == ProcessLinesTs(split(text))

\* processFile(file) of addJots.ts
processFileTs(text) == ModifyIfResult(processFileContentTs(text))

(***************************************************************************)
(* The Task Letters setting, src/src/settings/sections/AppearanceSection.ts *)
(***************************************************************************)
\* value.split(','): always at least one part
RECURSIVE SplitCommaFrom(_, _, _)
SplitCommaFrom(s, k, cur) ==
    IF k > Len(s) THEN <<cur>>
    ELSE IF s[k] = "," THEN <<cur>> \o SplitCommaFrom(s, k + 1, <<>>)
    ELSE SplitCommaFrom(s, k + 1, Append(cur, s[k]))

toUpperCase(s) == [i \in DOMAIN s |-> UpperChar(s[i])]

\* letter => /^[A-Z]$/.test(letter)
IsValidLetter(letter) == Len(letter) = 1 /\ IsLetter(letter[1]) /\ UpperChar(letter[1]) = letter[1]

\* the onChange handler of the text field: the letters it stores
validLetters(value) ==
    SelectSeq([i \in DOMAIN SplitCommaFrom(toUpperCase(value), 1, <<>>) |-> trim(SplitCommaFrom(toUpperCase(value), 1, <<>>)[i])], IsValidLetter)

(***************************************************************************)
(* The lines notes are typed from, and the settings the plugin runs with   *)
(***************************************************************************)
Blank       == <<>>
Text        == <<"t">>
Heading     == <<"#", " ", "T">>
TaskA       == <<"-", " ", "[", "a", "]", " ", "x">>
TaskB       == <<"-", " ", "[", "b", "]", " ", "y">>
TaskC       == <<"-", " ", "[", "c", "]", " ", "z">>
\* a quoted task line whose letter is not in the lists of letters used here
QuotedC     == <<">", " ", "-", " ", "[", "c", "]", " ", "z">>
QuotedA     == <<">", " ", "-", " ", "[", "a", "]", " ", "x">>
QuotedB     == <<">", " ", "-", " ", "[", "b", "]", " ", "y">>
\* "TaskA" again, quoted, with other spacing
QuotedDupA  == <<">", " ", " ", "-", " ", "[", "a", "]", " ", " ", "x">>
\* "TaskA" again, quoted, with a space before the quote marker
IndentedQuotedA == <<" ", ">", " ", "-", " ", "[", "a", "]", " ", "x">>
TimedA      == <<"-", " ", "[", "a", "]", " ",
                 "(", "t", "i", "m", "e", ":", ":", " ", "0", "9", ":", "3", "0", ")">>
QuotedTimedB == <<">", " ", "-", " ", "[", "b", "]", " ",
                 "(", "t", "i", "m", "e", ":", ":", "8", ":", "0", "5", ")">>
\* a timed line of the minute of TimedA, written without the leading zero
QuotedTimedB930 == <<">", " ", "-", " ", "[", "b", "]", " ", "(", "t", "i", "m", "e", ":", ":", " ", "9", ":", "3", "0", ")">>
\* a second untimed line of the letter a
QuotedAy    == <<">", " ", "-", " ", "[", "a", "]", " ", "y">>
HeaderPlain == <<">", " ", "[", "!", "j", "o", "t", "s", "]">>
HeaderOpen  == <<">", " ", "[", "!", "j", "o", "t", "s", "]", "+">>
\* the header with the section name as the settings hold it
HeaderUpper == <<">", " ", "[", "!", "J", "O", "T", "S", "]">>
\* the header of another callout
HeaderNote  == <<">", " ", "[", "!", "n", "o", "t", "e", "]">>
YamlFence   == <<"-", "-", "-">>
YamlKey     == <<"k", ":", " ", "v">>
\* a horizontal rule of four dashes
Rule        == <<"-", "-", "-", "-">>

\* a note created from a template with front matter: "---", the line, "---"
FrontMatterNote(line) == join(<<YamlFence, line, YamlFence, <<>>>>)

EmptyNote == <<>>

\* DEFAULT_SETTINGS.sectionName
DefaultSectionName == <<"J", "O", "T", "S">>

LettersAB == << <<"A">>, <<"B">> >>
LettersBA == << <<"B">>, <<"A">> >>

Settings(format, letters) ==
    [sectionName |-> DefaultSectionName, sectionFormat |-> format, taskLetters |-> letters]

MainPalette == {Blank, Text, Heading, TaskA, TaskB, QuotedA, HeaderPlain, HeaderOpen}
MainSettings == { Settings(f, LettersAB) : f \in {"Plain", "Foldable-Open"} }

(***************************************************************************)
(* The state machine                                                       *)
(***************************************************************************)
\* the days of the journal, and the absence of a file at a path
Days == 1 .. MaxDays
NoFile == [isFile |-> FALSE, text |-> <<>>]
TFile(text) == [isFile |-> TRUE, text |-> text]
NoRange == [startDate |-> 0, endDate |-> 0]

\* AddJotsRangeCommand constructed, its callback not running
RangeIdle ==
    /\ pc = "idle"
    /\ range = NoRange
    /\ currentDate = 0
    /\ calls = <<>>
    /\ pending = {}

\* the note and the settings before any command has run
NoteInit(settingsChoices, notes, lineChoices) ==
    /\ settings \in settingsChoices
    /\ palette = lineChoices
    /\ fileContent \in notes
    /\ typed = 0
    /\ editorValue = <<>>
    /\ activeView = FALSE
    /\ content = <<>>
    /\ newContent = Null
    /\ returned = FALSE
    /\ writes = <<>>
    /\ lastOp = "create"
    /\ runs = 0

InitWith(settingsChoices, notes, lineChoices) ==
    /\ NoteInit(settingsChoices, notes, lineChoices)
    /\ RangeIdle
    /\ vault = [d \in Days |-> NoFile]

Init == InitWith(MainSettings, {EmptyNote}, MainPalette)

\* the user types a line at the end of the note
TypeLine(l) ==
    /\ runs = 0 /\ ~activeView
    /\ typed < MaxLines
    /\ fileContent' = fileContent \o l \o <<NL>>
    /\ typed' = typed + 1
    /\ lastOp' = "type"
    /\ UNCHANGED <<settings, editorValue, activeView, content, newContent, returned,
                   writes, runs, palette, rangeVars>>

\* the note is opened in a markdown view, whose editor shows its text
OpenNote ==
    /\ runs = 0 /\ ~activeView
    /\ activeView' = TRUE
    /\ editorValue' = fileContent
    /\ lastOp' = "open"
    /\ UNCHANGED <<settings, fileContent, typed, content, newContent, returned, writes,
                   runs, palette, rangeVars>>

\* processFile(file) on the note in the vault.  The model runs it on notes
\* that are not open in a view: how the host reloads an open editor after
\* vault.modify is not in the source.
ProcessFile ==
    /\ runs < MaxRuns /\ ~activeView
    /\ \E r \in {processFile(fileContent)} :
           /\ content' = fileContent
           /\ newContent' = r.newContent
           /\ writes' = r.modified
           /\ fileContent' = IF Len(r.modified) > 0 THEN r.modified[Len(r.modified)]
                             ELSE fileContent
           /\ returned' = r.ret
    /\ runs' = runs + 1
    /\ lastOp' = "processFile"
    /\ UNCHANGED <<settings, typed, editorValue, activeView, palette, rangeVars>>

\* callback(): processActiveFile() on the editor of the active view
ProcessActiveFile ==
    /\ runs < MaxRuns /\ activeView
    /\ \E r \in {processActiveFile(editorValue)} :
           /\ content' = editorValue
           /\ newContent' = r.newContent
           /\ writes' = r.setValue
           /\ editorValue' = IF Len(r.setValue) > 0 THEN r.setValue[Len(r.setValue)]
                             ELSE editorValue
    /\ runs' = runs + 1
    /\ lastOp' = "processActiveFile"
    /\ UNCHANGED <<settings, fileContent, typed, activeView, returned, palette, rangeVars>>

Next ==
    \/ \E l \in palette : TypeLine(l)
    \/ OpenNote
    \/ ProcessFile
    \/ ProcessActiveFile

Spec == Init /\ [][Next]_vars

\* addJotsToJournal(plugin, file) on the note in the vault
AddJotsToJournal ==
    /\ runs < MaxRuns /\ ~activeView
    /\ \E r \in {addJotsToJournal(fileContent)} :
           /\ content' = fileContent
           /\ newContent' = r.newContent
           /\ writes' = r.modified
           /\ fileContent' = IF Len(r.modified) > 0 THEN r.modified[Len(r.modified)]
                             ELSE fileContent
           /\ returned' = r.ret
    /\ runs' = runs + 1
    /\ lastOp' = "processFile"
    /\ UNCHANGED <<settings, typed, editorValue, activeView, palette, rangeVars>>

NextLatest ==
    \/ \E l \in palette : TypeLine(l)
    \/ AddJotsToJournal

\* notes with text before and after a section, under the latest revision
LatestPalette == {Blank, Text, TaskA, QuotedB, HeaderPlain, HeaderNote}
InitLatest == InitWith({Settings("Plain", LettersAB)}, {EmptyNote}, LatestPalette)
SpecLatest == InitLatest /\ [][NextLatest]_vars

\* processFile(file) of src/src/commands/addJots.ts on the note in the vault
ProcessFileTs ==
    /\ runs < MaxRuns /\ ~activeView
    /\ \E r \in {processFileTs(fileContent)} :
           /\ content' = fileContent
           /\ newContent' = r.newContent
           /\ writes' = r.modified
           /\ fileContent' = IF Len(r.modified) > 0 THEN r.modified[Len(r.modified)]
                             ELSE fileContent
           /\ returned' = r.ret
    /\ runs' = runs + 1
    /\ lastOp' = "processFile"
    /\ UNCHANGED <<settings, typed, editorValue, activeView, palette, rangeVars>>

NextTs ==
    \/ \E l \in palette : TypeLine(l)
    \/ ProcessFileTs

\* notes with entries before and after a section, under the revision of
\* addJots.ts
TsPalette == {Blank, Text, TaskA, QuotedB, HeaderPlain, HeaderNote}
InitTs == InitWith({Settings("Plain", LettersAB)}, {EmptyNote}, TsPalette)
SpecTs == InitTs /\ [][NextTs]_vars

\* the user types value into the Task Letters field: onChange stores the
\* valid letters in the settings
OnChangeTaskLetters(value) ==
    /\ runs = 0 /\ ~activeView /\ typed = 0
    /\ settings' = [settings EXCEPT !.taskLetters = validLetters(value)]
    /\ lastOp' = "settings"
    /\ UNCHANGED <<fileContent, typed, editorValue, activeView, content, newContent, returned,
                   writes, runs, palette, rangeVars>>

\* what the user types into the field: two letters, one letter twice, lower
\* case with a space, and an entry that is no single letter
TypedLetters == {<<"A", ",", "B">>, <<"A", ",", "A">>, <<"b", ",", " ", "a">>, <<"a", "b", ",", "B">>}

NextSettings ==
    \/ \E value \in TypedLetters : OnChangeTaskLetters(value)
    \/ \E l \in palette : TypeLine(l)
    \/ ProcessFileTs

\* notes with entries of two letters in and around a section, under the
\* lists of letters the field stores
SettingsPalette == {HeaderPlain, QuotedA, TaskA, TaskB}
InitSettings == InitWith({Settings("Plain", LettersAB)}, {EmptyNote}, SettingsPalette)
SpecSettings == InitSettings /\ [][NextSettings]_vars

(***************************************************************************)
(* The command that inserts today's events into the daily journal,         *)
(* src/src/commands/insertEvents.ts.  An event is a record of settings.events *)
(* with its name, its date "YYYY-MM-DD", its type and whether it is        *)
(* enabled; today is the local date as year, month and day of the month.   *)
(***************************************************************************)
\* String(n) for n >= 0
RECURSIVE NumberToString(_)
NumberToString(n) == IF n < 10 THEN <<Digits[n + 1]>> ELSE NumberToString(n \div 10) \o <<Digits[(n % 10) + 1]>>

\* s.padStart(2, '0')
PadStart2(s) == IF Len(s) < 2 THEN <<"0">> \o s ELSE s

\* s.split('-')
RECURSIVE SplitDashFrom(_, _, _)
SplitDashFrom(s, k, cur) ==
    IF k > Len(s) THEN <<cur>>
    ELSE IF s[k] = "-" THEN <<cur>> \o SplitDashFrom(s, k + 1, <<>>)
    ELSE SplitDashFrom(s, k + 1, Append(cur, s[k]))

\* the test of the filter of getTodaysEvents: const [year, month, date] = event.date.split('-')
IsTodaysEvent(event, today) ==
    /\ event.enabled
    /\ SplitDashFrom(event.date, 1, <<>>)[2] = PadStart2(NumberToString(today.month))
    /\ SplitDashFrom(event.date, 1, <<>>)[3] = PadStart2(NumberToString(today.date))

getTodaysEvents(events, today) == SelectSeq(events, LAMBDA event : IsTodaysEvent(event, today))

getOrdinalSuffix(num) ==
    IF num % 10 = 1 /\ num % 100 # 11 THEN <<"s", "t">>
    ELSE IF num % 10 = 2 /\ num % 100 # 12 THEN <<"n", "d">>
    ELSE IF num % 10 = 3 /\ num % 100 # 13 THEN <<"r", "d">>
    ELSE <<"t", "h">>

\* years of generateEventDescription: empty for the placeholder year 1900
EventYears(eventYear, currentYear) ==
    IF eventYear # <<"1", "9", "0", "0">>
    THEN NumberToString(currentYear - Number(eventYear)) \o getOrdinalSuffix(currentYear - Number(eventYear)) \o <<" ">>
    ELSE <<>>

generateEventDescription(event, today) ==
    event.name \o <<"'", "s", " ">> \o EventYears(SplitDashFrom(event.date, 1, <<>>)[1], today.year) \o event.eventType
    \o (IF event.eventType = <<"W", "e", "d", "d", "i", "n", "g">> THEN <<" ", "A", "n", "n", "i", "v", "e", "r", "s", "a", "r", "y">> ELSE <<>>)

\* plugin.settings.eventTaskLetter || 'e', and plugin.settings.eventEmoji || the
\* balloon, written here as one element
EventTaskLetter == IF settings.eventTaskLetter # <<>> THEN settings.eventTaskLetter ELSE <<"e">>
EventEmoji == IF settings.eventEmoji # <<>> THEN settings.eventEmoji ELSE <<"U+1F388">>

\* the line of one event, with its line break
EventLine(event, today) ==
    <<"-", " ", "[">> \o EventTaskLetter \o <<"]", " ", "(", "t", "i", "m", "e", ":", ":", " ", "0", "0", ":", "0", "0", ")", " ", "(", "t", "y", "p", "e", ":", ":", " ">> \o EventEmoji \o <<")", " ", "(", "e", "v", "e", "n", "t", ":", ":", " ">>
    \o generateEventDescription(event, today) \o <<")", NL>>

\* the loop over todayEvents that builds eventText
RECURSIVE EventText(_, _)
EventText(todayEvents, today) ==
    IF Len(todayEvents) = 0 THEN <<>>
    ELSE EventLine(Head(todayEvents), today) \o EventText(Tail(todayEvents), today)

\* content.includes(text)
includes(s, text) == \E k \in 1 .. (Len(s) + 1) : OccursAt(s, text, k)

\* "Always append to the end of the file without adding headers"
WithEventText(fileText, eventText) ==
    IF trim(fileText) # <<>> THEN fileText \o <<NL>> \o trim(eventText) ELSE trim(eventText)

\* insertTodaysEvents from the text of the journal file on: the texts handed
\* to vault.modify, first by the command and then by addJotsToJournal
InsertEventText(fileText, eventText) ==
    IF includes(fileText, trim(eventText)) THEN <<>>
    ELSE <<WithEventText(fileText, eventText)>> \o addJotsToJournal(WithEventText(fileText, eventText)).modified

insertTodaysEvents(fileText, today) ==
    IF Len(getTodaysEvents(settings.events, today)) = 0 THEN <<>>
    ELSE InsertEventText(fileText, EventText(getTodaysEvents(settings.events, today), today))

\* formatDate(date): YYYY-MM-DD
formatDate(date) ==
    NumberToString(date.year) \o <<"-">> \o PadStart2(NumberToString(date.month)) \o <<"-">> \o PadStart2(NumberToString(date.date))

\* vault.create(fullPath, '# ' + formatDate(date) + '\n\n') of getOrCreateJournalFile
CreatedJournalText(date) == <<"#", " ">> \o formatDate(date) \o <<NL, NL>>

\* the day the command runs on
Today == [year |-> 2026, month |-> 11, date |-> 3]

\* the command runs on the journal file of today
InsertTodaysEvents ==
    /\ runs < MaxRuns /\ ~activeView
    /\ \E modified \in {insertTodaysEvents(fileContent, Today)} :
           /\ writes' = modified
           /\ fileContent' = IF Len(modified) > 0 THEN modified[Len(modified)] ELSE fileContent
           /\ newContent' = IF Len(modified) > 1 THEN StringResult(modified[2]) ELSE Null
    /\ content' = fileContent
    /\ returned' = FALSE
    /\ runs' = runs + 1
    /\ lastOp' = "insertEvents"
    /\ UNCHANGED <<settings, typed, editorValue, activeView, palette, rangeVars>>

NextEvents ==
    \/ \E l \in palette : TypeLine(l)
    \/ InsertTodaysEvents

\* the events of the settings: two of the day, one of them with a year, one
\* of another day and one that is disabled
Event(name, date, eventType, enabled) == [name |-> name, date |-> date, eventType |-> eventType, enabled |-> enabled]
EventAnn == Event(<<"A", "n", "n">>, <<"1", "9", "0", "0", "-", "1", "1", "-", "0", "3">>, <<"B", "i", "r", "t", "h", "d", "a", "y">>, TRUE)
EventBob == Event(<<"B", "o", "b">>, <<"2", "0", "2", "5", "-", "1", "1", "-", "0", "3">>, <<"W", "e", "d", "d", "i", "n", "g">>, TRUE)
EventCyd == Event(<<"C", "y", "d">>, <<"1", "9", "0", "0", "-", "1", "2", "-", "0", "3">>, <<"B", "i", "r", "t", "h", "d", "a", "y">>, TRUE)
EventDan == Event(<<"D", "a", "n">>, <<"1", "9", "0", "0", "-", "1", "1", "-", "0", "3">>, <<"B", "i", "r", "t", "h", "d", "a", "y">>, FALSE)
EventLists == {<<>>, <<EventAnn>>, <<EventAnn, EventBob>>, <<EventCyd, EventBob, EventDan>>}

\* settings with the event letter among taskLetters
LettersAE == << <<"A">>, <<"E">> >>
EventSettings(events) ==
    [sectionName |-> DefaultSectionName, sectionFormat |-> "Plain", taskLetters |-> LettersAE,
     events |-> events, eventTaskLetter |-> <<"e">>, eventEmoji |-> <<>>]

\* the journal of the day as getOrCreateJournalFile creates it
CreatedJournal == CreatedJournalText(Today)

\* journals the user has typed lines into, and the one just created
EventsPalette == {Text, TaskA, HeaderPlain}
InitEvents == InitWith({ EventSettings(events) : events \in EventLists }, {EmptyNote, CreatedJournal}, EventsPalette)
SpecEvents == InitEvents /\ [][NextEvents]_vars

(***************************************************************************)
(* AddJotsRangeCommand, src/src/commands/addJotsRange.ts.  A date is the   *)
(* number of its calendar day: the modal gives both dates at the start of  *)
(* their day, and currentDate.add(1, 'day') goes to the next one.  The     *)
(* journal path of a day is formatted from its date, one path a day.       *)
(***************************************************************************)
noteVars == <<settings, fileContent, editorValue, activeView,
              content, newContent, returned, writes, lastOp, runs, palette, typed>>

\* callback() is invoked and awaits openDateRangeModal
Callback ==
    /\ pc = "idle"
    /\ pc' = "modal"
    /\ UNCHANGED <<noteVars, vault, range, currentDate, calls, pending>>

\* the Submit button of the modal: onSubmit resolves the promise with the
\* two dates, and callback() goes on to currentDate = startDate.clone()
SubmitRange(startDate, endDate) ==
    /\ pc = "modal"
    /\ range' = [startDate |-> startDate, endDate |-> endDate]
    /\ currentDate' = startDate
    /\ pc' = "while"
    /\ UNCHANGED <<noteVars, vault, calls, pending>>

\* the call of processFile made without await: the loop goes on at once
CallProcessFile_NoAwait ==
    /\ pc = "while" /\ currentDate <= range.endDate
    /\ vault[currentDate].isFile
    /\ calls' = Append(calls, currentDate)
    /\ pending' = pending \cup {currentDate}
    /\ currentDate' = currentDate + 1
    /\ UNCHANGED <<noteVars, vault, range, pc>>

\* while (currentDate <= endDate), file instanceof TFile:
\* await this.addJotsCommand.processFile(file) is called and awaited
CallProcessFile ==
    /\ pc = "while" /\ currentDate <= range.endDate
    /\ vault[currentDate].isFile
    /\ calls' = Append(calls, currentDate)
    /\ pending' = pending \cup {currentDate}
    /\ pc' = "await"
    /\ UNCHANGED <<noteVars, vault, range, currentDate>>

\* a processFile call completes: the note is rewritten if there is a result;
\* the callback that awaits it resumes with currentDate.add(1, 'day')
ProcessFileReturns ==
    /\ \E d \in pending :
           /\ \E r \in {processFile(vault[d].text)} :
                  vault' = IF Len(r.modified) > 0
                           THEN [vault EXCEPT ![d] = TFile(r.modified[Len(r.modified)])]
                           ELSE vault
           /\ pending' = pending \ {d}
    /\ pc' = IF pc = "await" THEN "while" ELSE pc
    /\ currentDate' = IF pc = "await" THEN currentDate + 1 ELSE currentDate
    /\ UNCHANGED <<noteVars, range, calls>>

\* while (currentDate <= endDate), no file at the path of the day
SkipDay ==
    /\ pc = "while" /\ currentDate <= range.endDate
    /\ ~vault[currentDate].isFile
    /\ currentDate' = currentDate + 1
    /\ UNCHANGED <<noteVars, vault, range, pc, calls, pending>>

\* the while condition is false: callback() returns
CallbackReturns ==
    /\ pc = "while" /\ currentDate > range.endDate
    /\ pc' = "done"
    /\ UNCHANGED <<noteVars, vault, range, currentDate, calls, pending>>

NextRange ==
    \/ Callback
    \/ \E startDate, endDate \in Days : SubmitRange(startDate, endDate)
    \/ CallProcessFile
    \/ ProcessFileReturns
    \/ SkipDay
    \/ CallbackReturns

\* the journal notes the range command finds: a note with a task line to
\* collect, a note whose section is in order, or no note for the day
JournalNotes == {NoFile, TFile(join(<<TaskA, <<>>>>)), TFile(join(<<HeaderPlain, QuotedA, <<>>>>))}

InitRange ==
    /\ NoteInit({Settings("Plain", LettersAB)}, {EmptyNote}, {})
    /\ RangeIdle
    /\ vault \in [Days -> JournalNotes]

SpecRange == InitRange /\ [][NextRange]_vars

\* the modal is closed without Submit (Escape, the close button, a click
\* outside): onClose empties contentEl and does not call onSubmit, so the
\* promise of openDateRangeModal is never resolved and callback() stays at
\* its await
DismissModal ==
    /\ pc = "modal"
    /\ pc' = "dismissed"
    /\ UNCHANGED <<noteVars, vault, range, currentDate, calls, pending>>

NextModal ==
    \/ NextRange
    \/ DismissModal

\* a step that completes a pending processFile call: the steps of
\* ProcessFileReturns, seen on pending alone
ProcessFileCompletes == \E d \in pending : pending' = pending \ {d}

\* the steps of callback() and of processFile are continuations of promises
\* the runtime resolves, so each is taken when it stays enabled: the loop
\* steps of callback(), and the completion of the processFile call it
\* awaits; what the user does with the modal has no fairness
SpecModal ==
    /\ InitRange
    /\ [][NextModal]_vars
    /\ WF_vars(CallProcessFile)
    /\ WF_pending(ProcessFileCompletes)
    /\ WF_vars(SkipDay)
    /\ WF_vars(CallbackReturns)

(***************************************************************************)
(* Specifications that type notes from other lines; the actions are the    *)
(* same.                                                                   *)
(***************************************************************************)
\* task lines of two letters inside and outside the section, one of them in
\* three spellings
ConservePalette == {Heading, TaskA, QuotedDupA, IndentedQuotedA, QuotedB, HeaderPlain}
InitConserve == InitWith({Settings("Plain", LettersAB)}, {EmptyNote}, ConservePalette)
SpecConserve == InitConserve /\ [][Next]_vars

\* notes with and without front matter; the front matter holds a task line
YamlPalette == {YamlFence, Heading, TaskA, TaskB, Blank}
InitYaml == InitWith({Settings("Plain", LettersAB)}, {EmptyNote, FrontMatterNote(TimedA)},
                     YamlPalette)
SpecYaml == InitYaml /\ [][Next]_vars

\* timed and untimed task lines of two letters and a heading, under both
\* orders of the letters
SortPalette == {Heading, TimedA, QuotedTimedB, QuotedA, TaskB, HeaderPlain}
InitSort == InitWith({Settings("Plain", LettersAB), Settings("Plain", LettersBA)},
                     {EmptyNote}, SortPalette)
SpecSort == InitSort /\ [][Next]_vars

\* notes without a section, with and without front matter, under two formats
NewPalette == {Blank, Text, Heading, TaskA, QuotedTimedB}
InitNew == InitWith({Settings("Plain", LettersAB), Settings("Foldable-Closed", LettersAB)},
                    {EmptyNote, FrontMatterNote(YamlKey)}, NewPalette)
SpecNew == InitNew /\ [][Next]_vars

\* headers in both cases and of another callout, a quoted task line, and task
\* lines with a letter that is collected and one that is not
CalloutPalette == {HeaderUpper, HeaderNote, HeaderPlain, QuotedA, TaskB, TaskC}
InitCallouts == InitWith({Settings("Plain", LettersAB)}, {EmptyNote}, CalloutPalette)
SpecCallouts == InitCallouts /\ [][Next]_vars

\* notes that open with "---" and go on with rules, keys and a task line
RulePalette == {YamlFence, Rule, YamlKey, TaskA}
InitRule == InitWith({Settings("Plain", LettersAB)}, {EmptyNote}, RulePalette)
SpecRule == InitRule /\ [][Next]_vars

\* blank lines next to task lines, a heading and a header, under settings
\* whose list of letters is empty, has two letters, or names one letter twice
BoundsPalette == {Blank, Heading, TaskA, QuotedA, HeaderPlain}
LettersNone == <<>>
LettersAA == << <<"A">>, <<"A">> >>
BoundsSettings == {Settings("Plain", LettersNone), Settings("Foldable-Closed", LettersAB), Settings("Plain", LettersAA)}
InitBounds == InitWith(BoundsSettings, {EmptyNote}, BoundsPalette)
SpecBounds == InitBounds /\ [][Next]_vars

\* two timed lines of the same minute and two untimed lines of the same
\* letter, quoted and not, with the header of the section
StablePalette == {HeaderPlain, TimedA, QuotedTimedB930, TaskA, QuotedAy}
InitStable == InitWith({Settings("Plain", LettersAB), Settings("Plain", LettersBA)}, {EmptyNote}, StablePalette)
SpecStable == InitStable /\ [][Next]_vars

\* task lines of a letter that is collected and of one that is not, quoted
\* and not, around the header of the section
LettersPalette == {HeaderPlain, TaskA, TaskC, QuotedC, Text}
InitLetters == InitWith({Settings("Plain", LettersAB)}, {EmptyNote}, LettersPalette)
SpecLetters == InitLetters /\ [][Next]_vars

(***************************************************************************)
(* What the properties below speak about                                   *)
(***************************************************************************)
\* a run of the command has ended
RunDone == lastOp \in {"processFile", "processActiveFile"}

\* the last run returned a text
Rewritten == RunDone /\ ~newContent.isNull

\* the front matter of the text the last run read, and the lines of its body
InputYaml == YamlFrontmatter(content)
InputBody == split(ContentWithoutYaml(content))

\* the lines of the result, and those behind the front matter of the input
OutputLines == split(newContent.text)
OutputBody == split(Slice(newContent.text, Len(InputYaml)))

\* the test of findTasksToMove: the line matches the task pattern with a
\* letter of taskLetters
IsTagged(line) ==
    LET m == TaskPatternLetter(line)
    IN  /\ m # undefined
        /\ \E j \in DOMAIN settings.taskLetters : settings.taskLetters[j] = <<UpperChar(m[1])>>

\* the lines among lines that are tagged entries as they stand
TaggedLines(lines) == SelectSeq(lines, IsTagged)

\* the normalized contents of the tagged entries among lines, a line read
\* without the whitespace around it
TaggedContents(lines) ==
    { NormalizeTask(trim(lines[i])) : i \in { j \in DOMAIN lines : IsTagged(trim(lines[j])) } }

\* the 0-based indices of the lines of the callout under the header at h
SectionIndices(lines, h) ==
    IF h = -1 THEN {} ELSE (h + 1) .. CalloutEndFrom(lines, h + 1, h)

\* the entries of the collection section of lines: the task lines of the
\* callout under the first header
SectionEntries(lines) ==
    LET h == findExistingCalloutIndex(lines)
        e == CalloutEndFrom(lines, h + 1, h)
    IN  IF h = -1 THEN <<>>
        ELSE SelectSeq(SubSeq(lines, h + 2, e + 1),
                       LAMBDA l : QuotedTaskLetter(trim(l)) # undefined)

\* timed entries before untimed ones, and the timed ones by minutes of the day
TimedFirstAscending(entries) ==
    \A i, j \in DOMAIN entries :
        i < j =>
            LET ti == extractTimeFromTask(entries[i])
                tj == extractTimeFromTask(entries[j])
            IN  /\ tj # undefined => ti # undefined
                /\ (ti # undefined /\ tj # undefined) => TotalMinutes(ti) <= TotalMinutes(tj)

\* the position in taskLetters of the letter of an entry, 0 for a letter
\* that is not in taskLetters
LetterPosition(entry) ==
    LET m == TaskPatternLetter(trim(entry))
        at == { p \in DOMAIN settings.taskLetters :
                    m # undefined /\ settings.taskLetters[p] = <<UpperChar(m[1])>> }
    IN  IF at = {} THEN 0 ELSE CHOOSE p \in at : \A q \in at : p <= q

\* the untimed entries lie in the order of their letters in taskLetters
GroupedInLetterOrder(entries) ==
    \A i, j \in DOMAIN entries :
        (/\ i < j
         /\ extractTimeFromTask(entries[i]) = undefined
         /\ extractTimeFromTask(entries[j]) = undefined)
        => /\ LetterPosition(entries[i]) > 0
           /\ LetterPosition(entries[i]) <= LetterPosition(entries[j])

\* a header of the collection section, whitespace around the line aside
IsHeader(line) == MatchesCalloutPattern(trim(line))

(***************************************************************************)
(* C1: processFileContent is idempotent: run on a text that a run has      *)
(* produced (or has left as it was, returning null), it returns null or    *)
(* the same text again.                                                    *)
(***************************************************************************)
C1_Idempotent ==
    (RunDone /\ runs >= 2) => (newContent.isNull \/ newContent.text = content)

FrontMatterClose(lines) ==
    LET closes == { k \in DOMAIN lines : k >= 3 /\ lines[k] = YamlFence }
    IN  IF Len(lines) > 0 /\ lines[1] = YamlFence /\ closes # {}
        THEN CHOOSE k \in closes : \A q \in closes : k <= q
        ELSE 0

FrontMatterBlock(text) == SubSeq(split(text), 1, FrontMatterClose(split(text)))

\* the lines of text behind its front-matter block
BehindFrontMatter(text) ==
    SubSeq(split(text), FrontMatterClose(split(text)) + 1, Len(split(text)))

C4_TimedSorted ==
    Rewritten => TimedFirstAscending(SectionEntries(OutputBody))

\* an untimed entry was in the section, and two timed entries were moved into
\* it that stood in the note latest first
C4_Witness ==
    /\ Rewritten
    /\ SectionEntries(InputBody) = <<QuotedA>>
    /\ \E i, j \in DOMAIN InputBody :
           i < j /\ InputBody[i] = TimedA /\ InputBody[j] = QuotedTimedB
    /\ Len(SectionEntries(OutputBody)) = 3
    /\ SectionEntries(OutputBody)[1] = QuotedTimedB

(***************************************************************************)
(* C5: in the collection section of a result the untimed entries are       *)
(* grouped by letter, the groups in the order of settings.taskLetters.     *)
(***************************************************************************)
C5_GroupedByLetter ==
    Rewritten => GroupedInLetterOrder(SectionEntries(OutputBody))

\* with the letters in the order B, A: the note had the untimed entry of A
\* before that of B, and the section of the result has them the other way
C5_Witness ==
    /\ Rewritten
    /\ settings.taskLetters = LettersBA
    /\ \E i, j \in DOMAIN InputBody :
           i < j /\ InputBody[i] = QuotedA /\ InputBody[j] = TaskB
    /\ \E i, j \in DOMAIN SectionEntries(OutputBody) :
           /\ i < j
           /\ SectionEntries(OutputBody)[i] = <<">", " ">> \o TaskB
           /\ SectionEntries(OutputBody)[j] = QuotedA

(***************************************************************************)
(* C6: deduplication: no two entries of the collection section of a result *)
(* have the same normalized content.                                       *)
(***************************************************************************)
C6_NoDuplicates ==
    Rewritten =>
        \A i, j \in DOMAIN SectionEntries(OutputBody) :
            i # j => NormalizeTask(SectionEntries(OutputBody)[i])
                         # NormalizeTask(SectionEntries(OutputBody)[j])

(***************************************************************************)
(* C7: for a note with a collection section, no tagged entry outside it    *)
(* and a header whose fold suffix is the configured one, processFileContent*)
(* returns null.                                                           *)
(***************************************************************************)
C7_NullWhenSettled ==
    LET h == findExistingCalloutIndex(InputBody)
    IN  (/\ RunDone
         /\ h # -1
         /\ \A k \in 0 .. Len(InputBody) - 1 :
                IsTagged(trim(At(InputBody, k))) => k \in SectionIndices(InputBody, h)
         /\ getCalloutFormatFromLine(At(InputBody, h)) = settings.sectionFormat)
        => newContent.isNull

(***************************************************************************)
(* C8: for a note with a section header whose fold suffix is not the       *)
(* configured one, processFileContent returns a text in which the header   *)
(* carries the configured suffix and no header carries another one.        *)
(***************************************************************************)
C8_HeaderSuffixUpdated ==
    (/\ RunDone
     /\ \E k \in DOMAIN InputBody :
            /\ MatchesCalloutPattern(InputBody[k])
            /\ getCalloutFormatFromLine(InputBody[k]) # settings.sectionFormat)
    => /\ ~newContent.isNull
       /\ \E k \in DOMAIN OutputBody :
              OutputBody[k] = HeaderPlain \o FormatSuffix(settings.sectionFormat)
       /\ \A k \in DOMAIN OutputBody :
              MatchesCalloutPattern(OutputBody[k]) =>
                  getCalloutFormatFromLine(OutputBody[k]) = settings.sectionFormat

(***************************************************************************)
(* C9: for a note without a section header and with a tagged entry, the    *)
(* result ends with a new section: the header "> [!jots]" with the         *)
(* configured fold suffix, then every collected entry once, in sorted      *)
(* order; the section stands behind all other content, one blank line      *)
(* between them.                                                           *)
(***************************************************************************)
\* the index (1-based) of the last line of lines that is the header, or 0
LastHeaderLine(lines, header) ==
    LET at == { k \in DOMAIN lines : lines[k] = header }
    IN  IF at = {} THEN 0 ELSE CHOOSE k \in at : \A q \in at : k >= q

C9_NewSectionAtEnd ==
    (/\ RunDone
     /\ \A k \in DOMAIN InputBody : ~IsHeader(InputBody[k])
     /\ TaggedLines(InputBody) # <<>>)
    => /\ ~newContent.isNull
       /\ LET out == OutputLines
              found == TaggedLines(InputBody)
              h == LastHeaderLine(out, HeaderPlain \o FormatSuffix(settings.sectionFormat))
              entries == SubSeq(out, h + 1, Len(out))
              collected == { NormalizeTask(found[k]) : k \in DOMAIN found }
              yamlLines == IF InputYaml = <<>> THEN 0 ELSE Len(split(InputYaml))
          IN  /\ h > 0
              /\ entries # <<>>
              /\ \A k \in DOMAIN entries :
                     startsWith(entries[k], <<">", " ">>) /\ IsTagged(entries[k])
              /\ { NormalizeTask(entries[k]) : k \in DOMAIN entries } = collected
              /\ Len(entries) = Cardinality(collected)
              /\ TimedFirstAscending(entries) /\ GroupedInLetterOrder(entries)
              /\ \A k \in 1 .. h - 1 : k > yamlLines => ~IsTagged(out[k])
              /\ \/ h = 1
                 \/ /\ h >= 3
                    /\ out[h - 1] = <<>>
                    /\ trim(out[h - 2]) # <<>>

\* a note with front matter, other text and two entries, the untimed one
\* first, got a folded section behind the text
C9_Witness ==
    /\ Rewritten
    /\ settings.sectionFormat = "Foldable-Closed"
    /\ InputYaml # <<>>
    /\ \A k \in DOMAIN InputBody : ~IsHeader(InputBody[k])
    /\ \E i, j \in DOMAIN InputBody : i < j /\ InputBody[i] = TaskA /\ InputBody[j] = QuotedTimedB
    /\ \E k \in DOMAIN InputBody : InputBody[k] = Text
    /\ LET n == Len(OutputLines)
       IN  /\ n >= 5
           /\ OutputLines[n] = <<">", " ">> \o TaskA
           /\ OutputLines[n - 1] = QuotedTimedB
           /\ OutputLines[n - 2] = HeaderPlain \o <<"-">>
           /\ OutputLines[n - 3] = <<>>

(***************************************************************************)
(* C10: processFile writes (vault.modify, once, the rewritten text) and    *)
(* returns true exactly when processFileContent returned a text, and       *)
(* neither writes nor returns true when it returned null;                  *)
(* processActiveFile calls editor.setValue only for a text.                *)
(***************************************************************************)
C10_PersistsIffResult ==
    /\ lastOp = "processFile" =>
          IF newContent.isNull
          THEN writes = <<>> /\ returned = FALSE /\ fileContent = content
          ELSE writes = <<newContent.text>> /\ returned = TRUE
               /\ fileContent = newContent.text
    /\ lastOp = "processActiveFile" =>
          IF newContent.isNull
          THEN writes = <<>> /\ editorValue = content
          ELSE writes = <<newContent.text>> /\ editorValue = newContent.text

\* processFile moved the entries of a note into its section, wrote the text
\* once and returned true
C10_Witness ==
    /\ lastOp = "processFile"
    /\ ~newContent.isNull /\ newContent.text # content
    /\ writes = <<newContent.text>> /\ returned /\ fileContent = newContent.text
    /\ findExistingCalloutIndex(split(content)) # -1
    /\ TaggedContents(split(content)) # {}

(***************************************************************************)
(* C11: the header is recognized whatever the case of the section name:    *)
(* the first line that is a header when read in lower case is the section  *)
(* findExistingCalloutIndex finds, and a rewrite adds no header.           *)
(***************************************************************************)
\* a header of the section, the case of its letters aside
IsHeaderAnyCase(line) == MatchesCalloutPattern(toLowerCase(line))

HeadersAnyCase(lines) == { k \in DOMAIN lines : IsHeaderAnyCase(lines[k]) }

C11_HeaderFoundInAnyCase ==
    (RunDone /\ HeadersAnyCase(InputBody) # {}) =>
        /\ findExistingCalloutIndex(InputBody) + 1
               = CHOOSE k \in HeadersAnyCase(InputBody) :
                     \A q \in HeadersAnyCase(InputBody) : k <= q
        /\ ~newContent.isNull =>
               Cardinality(HeadersAnyCase(OutputBody)) = Cardinality(HeadersAnyCase(InputBody))

(***************************************************************************)
(* C12: a quoted tagged entry in another callout (under "> [!note]") and   *)
(* not in the extent of the configured section is moved: the run returns a *)
(* text whose collection section holds the entry, and no tagged entry is   *)
(* left under the other callout.                                           *)
(***************************************************************************)
\* line k (1-based) is quoted
IsQuoted(lines, k) == startsWith(trimStart(lines[k]), <<">">>)

\* line k (1-based) lies in the extent of a header of the configured section
InSection(lines, k) ==
    \E h \in 1 .. k - 1 :
        IsHeader(lines[h]) /\ \A j \in h + 1 .. k : IsQuoted(lines, j)

\* line k (1-based) is a quoted tagged entry of a "> [!note]" callout that is
\* not in the configured section
UnderOtherCallout(lines, k) ==
    /\ IsTagged(lines[k]) /\ IsQuoted(lines, k)
    /\ ~InSection(lines, k)
    /\ \E h \in 1 .. k - 1 :
           lines[h] = HeaderNote /\ \A j \in h + 1 .. k : IsQuoted(lines, j)

C12_OtherCalloutEntriesMoved ==
    (RunDone /\ \E k \in DOMAIN InputBody : UnderOtherCallout(InputBody, k)) =>
        /\ ~newContent.isNull
        /\ \A k \in DOMAIN InputBody :
               UnderOtherCallout(InputBody, k) =>
                   \E e \in DOMAIN SectionEntries(OutputBody) :
                       NormalizeTask(SectionEntries(OutputBody)[e]) = NormalizeTask(InputBody[k])
        /\ \A k \in DOMAIN OutputBody : ~UnderOtherCallout(OutputBody, k)

\* a note with an entry under "> [!note]", another entry outside any callout
\* and the configured section: the section of the result holds both entries
C12_Witness ==
    /\ Rewritten
    /\ \E k \in DOMAIN InputBody : UnderOtherCallout(InputBody, k) /\ InputBody[k] = QuotedA
    /\ \E k \in DOMAIN InputBody : InputBody[k] = TaskB
    /\ findExistingCalloutIndex(InputBody) # -1
    /\ Len(SectionEntries(OutputBody)) = 2
    /\ \E k \in DOMAIN OutputBody : OutputBody[k] = HeaderNote

(***************************************************************************)
(* C13: a text that opens with a "---" line and has no "---" line after it *)
(* has no front matter: the whole text is the body, its tagged entries are *)
(* collected into the section and the "---" line stays the first line.     *)
(***************************************************************************)
\* text opens with a "---" line that no later "---" line closes
UnterminatedFrontMatter(text) ==
    /\ split(text)[1] = YamlFence
    /\ \A k \in 2 .. Len(split(text)) : split(text)[k] # YamlFence

\* the lines of lines that are tagged and stand outside the section
TaggedOutside(lines) == { k \in DOMAIN lines : IsTagged(lines[k]) /\ ~InSection(lines, k) }

C13_UnterminatedIsBody ==
    (RunDone /\ UnterminatedFrontMatter(content)) =>
        /\ InputYaml = <<>>
        /\ TaggedOutside(split(content)) # {} =>
               /\ ~newContent.isNull
               /\ OutputLines[1] = YamlFence
               /\ \A k \in TaggedOutside(split(content)) :
                      \E q \in DOMAIN OutputLines :
                          /\ InSection(OutputLines, q)
                          /\ NormalizeTask(OutputLines[q]) = NormalizeTask(split(content)[k])

(***************************************************************************)
(* The accesses lines[index] of processFileContent and updateCalloutFormat *)
(* into the line array, each with the length of the array at that moment.  *)
(* A read outside 0 .. length - 1 gives undefined, and the method calls on *)
(* it (trim, trimStart, match, startsWith) throw a TypeError.              *)
(***************************************************************************)
Access(index, lines) == <<index, Len(lines)>>
InBounds(a) == a[1] >= 0 /\ a[1] < a[2]

\* lines[i] is there and is empty once trimmed
BlankAt(lines, i) == InBounds(Access(i, lines)) /\ trim(At(lines, i)) = <<>>

\* const line = lines[i] of the loop that sets the content before the first
\* task aside, i = 0 under i < lines.length
RECURSIVE ContentBeforeTasksAccesses(_)
ContentBeforeTasksAccesses(lines) ==
    IF Len(lines) = 0 THEN {}
    ELSE IF TaskPatternLetter(At(lines, 0)) # undefined THEN {Access(0, lines)}
    ELSE {Access(0, lines)} \cup ContentBeforeTasksAccesses(RemoveAt(lines, 0))

TitleAccesses(lines) ==
    IF FindTitleFrom(lines, 0) # -1 THEN ContentBeforeTasksAccesses(lines) ELSE {}

\* the removal loop from index i down: lines[i], and after the splice
\* lines[i - 1] under i > 0 and lines[i] under i < lines.length
RECURSIVE RemoveTasksAccesses(_, _, _)
RECURSIVE RemoveAfterAccesses(_, _, _)

\* the line before the removed one read whatever i is
RemoveBeforeAccesses_NoGuard(l1, i, normalizedTasksToRemove) ==
    {Access(i - 1, l1)}
        \cup (IF BlankAt(l1, i - 1)
              THEN RemoveAfterAccesses(RemoveAt(l1, i - 1), i - 1, normalizedTasksToRemove)
              ELSE RemoveAfterAccesses(l1, i, normalizedTasksToRemove))

\* if (i > 0 && !lines[i - 1].trim()) { lines.splice(i - 1, 1); i--; }
RemoveBeforeAccesses(l1, i, normalizedTasksToRemove) ==
    IF i > 0
    THEN {Access(i - 1, l1)}
             \cup (IF BlankAt(l1, i - 1)
                   THEN RemoveAfterAccesses(RemoveAt(l1, i - 1), i - 1, normalizedTasksToRemove)
                   ELSE RemoveAfterAccesses(l1, i, normalizedTasksToRemove))
    ELSE RemoveAfterAccesses(l1, i, normalizedTasksToRemove)

\* if (i < lines.length && !lines[i]?.trim()) lines.splice(i, 1); then i--
RemoveAfterAccesses(l2, i, normalizedTasksToRemove) ==
    IF i < Len(l2)
    THEN {Access(i, l2)}
             \cup (IF BlankAt(l2, i)
                   THEN RemoveTasksAccesses(RemoveAt(l2, i), i - 1, normalizedTasksToRemove)
                   ELSE RemoveTasksAccesses(l2, i - 1, normalizedTasksToRemove))
    ELSE RemoveTasksAccesses(l2, i - 1, normalizedTasksToRemove)

RemoveTasksAccesses(lines, i, normalizedTasksToRemove) ==
    IF i < 0 THEN {}
    ELSE IF ~InBounds(Access(i, lines)) THEN {Access(i, lines)}
    ELSE IF /\ trim(At(lines, i)) # <<>>
            /\ NormalizeTask(trim(At(lines, i))) \in normalizedTasksToRemove
    THEN {Access(i, lines)}
             \cup RemoveBeforeAccesses(RemoveAt(lines, i), i, normalizedTasksToRemove)
    ELSE {Access(i, lines)} \cup RemoveTasksAccesses(lines, i - 1, normalizedTasksToRemove)

\* the cleanup loop from index i down: lines[i], and lines[i - 1] when
\* lines[i] is empty, i is not the last index and i > 0
RECURSIVE CleanupEmptyAccesses(_, _)
CleanupEmptyAccesses(lines, i) ==
    IF i < 0 THEN {}
    ELSE IF ~InBounds(Access(i, lines)) THEN {Access(i, lines)}
    ELSE IF ~BlankAt(lines, i)
    THEN {Access(i, lines)} \cup CleanupEmptyAccesses(lines, i - 1)
    ELSE IF i = Len(lines) - 1
    THEN {Access(i, lines)} \cup CleanupEmptyAccesses(RemoveAt(lines, i), i - 1)
    ELSE IF i > 0 /\ BlankAt(lines, i - 1)
    THEN {Access(i, lines), Access(i - 1, lines)}
             \cup CleanupEmptyAccesses(RemoveAt(lines, i), i - 1)
    ELSE {Access(i, lines)}
             \cup (IF i > 0 THEN {Access(i - 1, lines)} ELSE {})
             \cup CleanupEmptyAccesses(lines, i - 1)

\* the while loop before the callout: lines[existingCalloutIndex - 1] under
\* existingCalloutIndex > 0
RECURSIVE BlankBeforeCalloutAccesses(_, _)
BlankBeforeCalloutAccesses(lines, existingCalloutIndex) ==
    IF existingCalloutIndex <= 0 THEN {}
    ELSE IF BlankAt(lines, existingCalloutIndex - 1)
    THEN {Access(existingCalloutIndex - 1, lines)}
             \cup BlankBeforeCalloutAccesses(RemoveAt(lines, existingCalloutIndex - 1),
                                             existingCalloutIndex - 1)
    ELSE {Access(existingCalloutIndex - 1, lines)}

\* the branch for an existing callout from the end of the callout on: the
\* loop to the end of the callout reads lines[i] under i < lines.length, the
\* loop of the existing tasks reads lines[i] up to calloutEndIndex,
\* updateCalloutFormat reads and writes lines[calloutIndex]
ExistingCalloutExtentAccesses(lines0, existingCalloutIndex, calloutEndIndex, tasksToMove) ==
    { Access(i, lines0) : i \in existingCalloutIndex + 1 .. calloutEndIndex }
        \cup { Access(i, lines0) : i \in {calloutEndIndex + 1} \cap (0 .. Len(lines0) - 1) }
        \cup { Access(existingCalloutIndex, lines0) }
        \cup (IF \/ Len(tasksToMove) > 0
                 \/ Len(ExistingTasksLoop(lines0, existingCalloutIndex + 1, calloutEndIndex)) > 0
              THEN BlankBeforeCalloutAccesses(lines0, existingCalloutIndex)
              ELSE {})

\* the branch from the recalculated index of the callout on
ExistingCalloutAccesses(lines0, existingCalloutIndex, tasksToMove) ==
    ExistingCalloutExtentAccesses(lines0, existingCalloutIndex,
                                  CalloutEndFrom(lines0, existingCalloutIndex + 1, existingCalloutIndex),
                                  tasksToMove)

\* "Now handle the callout section": the branch taken on the index found
\* before the removals; the new callout reads lines[lines.length - 1] under
\* lines.length > 0
HandleCalloutAccesses(existingCalloutIndex, tasksToMove, lines0) ==
    IF existingCalloutIndex # -1
    THEN ExistingCalloutAccesses(lines0, findExistingCalloutIndex(lines0), tasksToMove)
    ELSE IF Len(tasksToMove) > 0 /\ Len(lines0) > 0
    THEN {Access(Len(lines0) - 1, lines0)}
    ELSE {}

\* the accesses from findTasksToMove on
ProcessLinesAccesses(lines, tasksToMove, normalizedTasksToRemove) ==
    RemoveTasksAccesses(lines, Len(lines) - 1, normalizedTasksToRemove)
        \cup CleanupEmptyAccesses(RemoveTasksLoop(lines, Len(lines) - 1, FALSE, normalizedTasksToRemove).lines, Len(RemoveTasksLoop(lines, Len(lines) - 1, FALSE, normalizedTasksToRemove).lines) - 1)
        \cup HandleCalloutAccesses(findExistingCalloutIndex(lines), tasksToMove, RemoveMovedTasks(lines, tasksToMove).lines)

\* the accesses from the title line on
ProcessContentAccesses(lines, pre) ==
    TitleAccesses(lines)
        \cup ProcessLinesAccesses(pre.lines, findTasksToMove(pre.lines), { NormalizeTask(findTasksToMove(pre.lines)[j].line) : j \in DOMAIN findTasksToMove(pre.lines) })

\* every access processFileContent makes into lines on text
LineAccesses(text) ==
    ProcessContentAccesses(split(ContentWithoutYaml(text)), SplitContentBeforeTasks(split(ContentWithoutYaml(text))))

\* a JavaScript string: a sequence of characters
IsString(text) == \A k \in DOMAIN text : Len(text[k]) = 1

(***************************************************************************)
(* C14: processFileContent never throws: every access it makes into the    *)
(* line array lies within the bounds of the array, and what it returns is  *)
(* null or a string, whatever the text and the list of letters.            *)
(***************************************************************************)
C14_NeverThrows ==
    RunDone =>
        /\ \A a \in LineAccesses(content) : InBounds(a)
        /\ newContent = processFileContent(content)
        /\ newContent = Null \/ (~newContent.isNull /\ IsString(newContent.text))

\* a run that removes the first line with the empty line after it, then
\* rewrites the header of the section it finds
C14_Witness ==
    /\ Rewritten
    /\ settings.sectionFormat = "Foldable-Closed"
    /\ Len(split(content)) >= 4
    /\ split(content)[1] = TaskA /\ split(content)[2] = Blank
    /\ \E k \in DOMAIN split(content) : split(content)[k] = HeaderPlain
    /\ Access(0, <<Blank, HeaderPlain>>) \in LineAccesses(content)

(***************************************************************************)
(* C15: sortTasks is stable.  Two timed entries of the same minute, and    *)
(* two untimed entries of the same letter, stand in the section of the     *)
(* result in the order sortTasks received them: the entries of the         *)
(* existing section in their order first, then the moved ones in the       *)
(* order of the note.                                                      *)
(***************************************************************************)
\* what sortTasks compares two entries by: the minute of a timed entry, the
\* letter of an untimed one
SortKey(entry) ==
    IF extractTimeFromTask(entry) # undefined
    THEN <<"time", TotalMinutes(extractTimeFromTask(entry))>>
    ELSE <<"letter", getTaskLetter(trim(entry))>>

\* the places in lines of the lines with the content of entry
PlacesOf(entry, lines) == { k \in DOMAIN lines : NormalizeTask(trim(lines[k])) = NormalizeTask(trim(entry)) }

First(S) == CHOOSE k \in S : \A q \in S : k <= q

\* the places in lines of the lines with the content of entry that stand in
\* a section, and of those that are tagged and stand outside
SectionPlacesOf(entry, lines) == { k \in PlacesOf(entry, lines) : InSection(lines, k) }
OutsidePlacesOf(entry, lines) == { k \in PlacesOf(entry, lines) : IsTagged(lines[k]) /\ ~InSection(lines, k) }

\* the place of entry in the array sortTasks receives: the entries of the
\* section in their order, the moved ones behind them by their first line
InputRank(entry) ==
    IF SectionPlacesOf(entry, InputBody) # {}
    THEN First(SectionPlacesOf(entry, InputBody))
    ELSE Len(InputBody) + First(OutsidePlacesOf(entry, InputBody))

\* entry stood in a section of the input and outside it as well
InBothPlaces(entry) ==
    SectionPlacesOf(entry, InputBody) # {} /\ OutsidePlacesOf(entry, InputBody) # {}

C15_SortIsStable ==
    Rewritten =>
        \A i, j \in DOMAIN SectionEntries(OutputBody) :
            (/\ i < j
             /\ SortKey(SectionEntries(OutputBody)[i]) = SortKey(SectionEntries(OutputBody)[j])
             /\ NormalizeTask(SectionEntries(OutputBody)[i]) # NormalizeTask(SectionEntries(OutputBody)[j])
             /\ ~InBothPlaces(SectionEntries(OutputBody)[i])
             /\ ~InBothPlaces(SectionEntries(OutputBody)[j]))
                => InputRank(SectionEntries(OutputBody)[i]) < InputRank(SectionEntries(OutputBody)[j])

\* the section held a timed and an untimed entry, and the note had a timed
\* line of the same minute and an untimed one of the same letter before the
\* section: the result has the entries of the section first in both pairs
C15_Witness ==
    /\ Rewritten
    /\ InputBody = <<TimedA, HeaderPlain, QuotedTimedB930, QuotedAy>>
       \/ InputBody = <<TaskA, HeaderPlain, QuotedAy, QuotedTimedB930>>
    /\ \E i, j \in DOMAIN SectionEntries(OutputBody) :
           /\ i < j
           /\ SortKey(SectionEntries(OutputBody)[i]) = SortKey(SectionEntries(OutputBody)[j])
           /\ SectionEntries(OutputBody)[i] \in {QuotedTimedB930, QuotedAy}
           /\ SectionPlacesOf(SectionEntries(OutputBody)[i], InputBody) # {}
           /\ SectionPlacesOf(SectionEntries(OutputBody)[j], InputBody) = {}

(***************************************************************************)
(* C16: for a text with no tagged entry and no header of the collection    *)
(* section on any line, processFileContent returns null.                   *)
(***************************************************************************)
NothingToCollect(text) ==
    /\ TaggedContents(split(text)) = {}
    /\ \A k \in DOMAIN split(text) : ~IsHeader(split(text)[k])

C16_NullWithoutEntries ==
    (RunDone /\ NothingToCollect(content)) => newContent.isNull

\* a note of a heading, a line of text and an empty line between them
C16_Witness ==
    /\ RunDone /\ NothingToCollect(content) /\ newContent.isNull
    /\ \E i, j, k \in DOMAIN split(content) :
           /\ i < j /\ j < k
           /\ split(content)[i] = Heading /\ split(content)[j] = Blank /\ split(content)[k] = Text

(***************************************************************************)
(* C17: a line outside the section that matches the task pattern with a    *)
(* letter that is not in taskLetters is not returned by findTasksToMove,   *)
(* is not moved into the section, and stays in the body: the result has    *)
(* the line, and two such lines keep their order.                          *)
(***************************************************************************)
\* the line at k matches the task pattern, its letter is not in taskLetters,
\* and it stands outside the section
UnlistedOutside(lines, k) ==
    /\ TaskPatternLetter(lines[k]) # undefined
    /\ ~IsTagged(lines[k])
    /\ ~InSection(lines, k)

C17_UnlistedLetterStays ==
    RunDone =>
        /\ \A k \in DOMAIN InputBody : UnlistedOutside(InputBody, k) =>
               \A j \in DOMAIN findTasksToMove(SplitContentBeforeTasks(InputBody).lines) :
                   NormalizeTask(findTasksToMove(SplitContentBeforeTasks(InputBody).lines)[j].line)
                       # NormalizeTask(InputBody[k])
        /\ ~newContent.isNull =>
               /\ \A k \in DOMAIN InputBody : UnlistedOutside(InputBody, k) =>
                      \E q \in DOMAIN OutputBody : OutputBody[q] = InputBody[k]
               /\ \A k1, k2 \in DOMAIN InputBody :
                      (/\ k1 < k2 /\ InputBody[k1] # InputBody[k2]
                       /\ UnlistedOutside(InputBody, k1) /\ UnlistedOutside(InputBody, k2))
                          => \E q1, q2 \in DOMAIN OutputBody :
                                 /\ q1 < q2
                                 /\ OutputBody[q1] = InputBody[k1]
                                 /\ OutputBody[q2] = InputBody[k2]

(***************************************************************************)
(* C18: AddJotsRangeCommand.callback calls processFile at most once for    *)
(* each day from startDate to endDate, in ascending order of the days; a   *)
(* call is made only when the call before it has completed; a day with no  *)
(* file at its journal path is skipped; and with startDate after endDate   *)
(* no call is made.  When callback returns, the days called are the days   *)
(* of the range that have a file.                                          *)
(***************************************************************************)
C18_RangeOneFileAtATime ==
    /\ \A i, j \in DOMAIN calls : i < j => calls[i] < calls[j]
    /\ \A i \in DOMAIN calls :
           /\ range.startDate <= calls[i] /\ calls[i] <= range.endDate
           /\ vault[calls[i]].isFile
    /\ Cardinality(pending) <= 1
    /\ pending # {} => (pc = "await" /\ pending = {currentDate} /\ calls[Len(calls)] = currentDate)
    /\ range.startDate > range.endDate => calls = <<>>
    /\ pc = "done" =>
           { calls[i] : i \in DOMAIN calls }
               = { d \in range.startDate .. range.endDate : vault[d].isFile }

\* the range was the three days, the second had no note: callback has
\* returned with the first and the third day processed, the first rewritten
C18_Witness ==
    /\ pc = "done"
    /\ range = [startDate |-> 1, endDate |-> MaxDays]
    /\ ~vault[2].isFile
    /\ calls = <<1>> \o [i \in 1 .. MaxDays - 2 |-> i + 2]
    /\ vault[1] = TFile(join(<<HeaderPlain, QuotedA>>))
    /\ pending = {}

(***************************************************************************)
(* C19: a tagged line between the header of the collection section and the *)
(* first line after it that is not quoted is not among the candidates of   *)
(* findTasksToMove, whatever stands before the section, a "#" heading      *)
(* included (unless a line outside the section has the same content).      *)
(***************************************************************************)
\* the normalized contents of the candidates processFileContent computes
MoveCandidates == { NormalizeTask(findTasksToMove(SplitContentBeforeTasks(InputBody).lines)[j].line) : j \in DOMAIN findTasksToMove(SplitContentBeforeTasks(InputBody).lines) }

C19_SectionEntriesNotCandidates ==
    RunDone =>
        \A k \in DOMAIN InputBody :
            (/\ IsTagged(InputBody[k])
             /\ InSection(InputBody, k)
             /\ OutsidePlacesOf(InputBody[k], InputBody) = {})
                => NormalizeTask(InputBody[k]) \notin MoveCandidates

(***************************************************************************)
(* C20: after a rewrite no line of the body outside a collection section   *)
(* has the normalized content of an entry that was moved: every source     *)
(* line of a moved entry is gone from the place it stood at.               *)
(***************************************************************************)
C20_MovedLinesGone ==
    Rewritten =>
        \A k \in DOMAIN OutputBody :
            NormalizeTask(trim(OutputBody[k])) \in MoveCandidates => InSection(OutputBody, k)

(***************************************************************************)
(* C21: when the input has a collection section, the result of the latest  *)
(* processFileContent (part_002) has the section where it was: the lines   *)
(* that are not blank and not entries stand before its header, and after   *)
(* the section, as they did in the input.                                  *)
(***************************************************************************)
\* the lines of lines from index from to index to that are not blank and not
\* tagged entries
OtherLines(lines, from, to) ==
    SelectSeq(SubSeq(lines, from, to), LAMBDA l : trim(l) # <<>> /\ ~IsTagged(trim(l)))

\* the lines before the first header, and those behind the entries under it
OtherLinesBefore(lines) == OtherLines(lines, 1, findExistingCalloutIndex(lines))
OtherLinesAfter(lines) ==
    OtherLines(lines, JotsSectionEnd(lines, findExistingCalloutIndex(lines) + 1, findExistingCalloutIndex(lines)) + 2, Len(lines))

\* the note holds exactly one section header line
OneHeader(lines) == Cardinality({ k \in DOMAIN lines : IsHeader(lines[k]) }) = 1

C21_SectionKeptInPlace ==
    (Rewritten /\ OneHeader(InputBody) /\ findExistingCalloutIndex(InputBody) # -1 /\ findExistingCalloutIndex(OutputBody) # -1) =>
        /\ OtherLinesBefore(OutputBody) = OtherLinesBefore(InputBody)
        /\ OtherLinesAfter(OutputBody) = OtherLinesAfter(InputBody)


(***************************************************************************)
(* C22: in every result of processFileContent (part_001), the lines behind *)
(* the front matter and the preamble kept verbatim hold no two blank       *)
(* lines in a row.                                                         *)
(***************************************************************************)
\* the preamble the run sets aside: the lines before the first task line of
\* a note with a title line, without the blank lines at its end
InputPreamble == PopTrailingBlank(SplitContentBeforeTasks(InputBody).contentBeforeTasks)

\* the number of lines the front matter of the input takes
InputYamlLines == IF InputYaml = <<>> THEN 0 ELSE Len(split(InputYaml))

\* the number of lines of the result up to the end of the preamble, or up to
\* the end of the front matter for a note without preamble
LinesUpToPreamble ==
    IF Len(InputPreamble) = 0 THEN InputYamlLines
    ELSE IF InputYamlLines = 0 THEN Len(InputPreamble)
    ELSE InputYamlLines + 1 + Len(InputPreamble)

\* the lines of the result behind the front matter and the preamble
ResultBehindPreamble == SubSeq(OutputLines, LinesUpToPreamble + 1, Len(OutputLines))

\* two lines in a row of lines are blank
HasBlankRun(lines) ==
    \E k \in DOMAIN lines : k < Len(lines) /\ trim(lines[k]) = <<>> /\ trim(lines[k + 1]) = <<>>

C22_NoBlankRuns == Rewritten => ~HasBlankRun(ResultBehindPreamble)


(***************************************************************************)
(* C23: in every result of processFileContent (part_001) of a note with    *)
(* one section header and no title line, a header that is not the first    *)
(* line of the result has exactly one blank line before it.                *)
(***************************************************************************)
\* the line before line k of lines is blank, and the one before that is not
OneBlankBefore(lines, k) ==
    /\ trim(lines[k - 1]) = <<>>
    /\ k > 2 => trim(lines[k - 2]) # <<>>

\* no line of the note is a title line, so the run sets no preamble aside
NoTitleLine(lines) == \A k \in DOMAIN lines : ~IsTitleLine(lines[k])

C23_OneBlankBeforeHeader ==
    (Rewritten /\ NoTitleLine(InputBody) /\ OneHeader(split(content))) =>
        \A k \in DOMAIN OutputLines :
            (k > 1 /\ IsHeader(OutputLines[k])) => OneBlankBefore(OutputLines, k)


(***************************************************************************)
(* C24: in every result of processFileContent (part_001) of a note with    *)
(* front matter, the front-matter block is followed by one blank line and  *)
(* then by a line that is not blank.                                       *)
(***************************************************************************)
C24_OneBlankAfterFrontMatter ==
    (Rewritten /\ InputYaml # <<>>) =>
        /\ startsWith(newContent.text, InputYaml)
        /\ Len(OutputLines) >= InputYamlLines + 2
        /\ trim(OutputLines[InputYamlLines + 1]) = <<>>
        /\ trim(OutputLines[InputYamlLines + 2]) # <<>>


(***************************************************************************)
(* C25: a result of processFileContent (part_001) of a note with at most   *)
(* one section header line has at most one section header line.            *)
(***************************************************************************)
\* the number of section header lines among lines
HeaderCount(lines) == Cardinality({ k \in DOMAIN lines : IsHeader(lines[k]) })

C25_AtMostOneHeader ==
    (Rewritten /\ HeaderCount(split(content)) <= 1) => HeaderCount(OutputLines) <= 1


(***************************************************************************)
(* C26: every line of the section of the input that is an untimed entry    *)
(* with a letter outside taskLetters, or a quoted line that is no task     *)
(* line, is a line of the result of processFileContent (part_001).         *)
(***************************************************************************)
\* the lines under the first header of lines, to the end of its callout
SectionBody(lines) ==
    [k \in 1 .. Cardinality(SectionIndices(lines, findExistingCalloutIndex(lines))) |-> At(lines, findExistingCalloutIndex(lines) + k)]

\* a line of the section that no run has a reason to touch: no task line, or
\* an untimed task line whose letter is not in taskLetters
NotForSorting(line) ==
    \/ QuotedTaskLetter(trim(line)) = undefined
    \/ extractTimeFromTask(trim(line)) = undefined /\ ~IsTagged(trim(line))

C26_SectionContentKept ==
    Rewritten =>
        \A k \in DOMAIN SectionBody(InputBody) :
            NotForSorting(SectionBody(InputBody)[k]) =>
                \E q \in DOMAIN OutputLines : trim(OutputLines[q]) = trim(SectionBody(InputBody)[k])


(***************************************************************************)
(* C27: when processFileContent of src/src/commands/addJots.ts merges      *)
(* entries into an existing section, the lines it blanks are the source    *)
(* lines of the moved entries and no others: every moved entry is a line   *)
(* of the result, its unquoted source line is not, and every other line    *)
(* outside the section that is not blank is a line of the result.          *)
(***************************************************************************)
\* the lines processFileContent of addJots.ts splits the text into
InputLinesTs == split(content)

\* the 0-based indices of the source lines of the entries that are moved
MovedIndicesTs == { findTasksToMoveTs(InputLinesTs)[j].index : j \in DOMAIN findTasksToMoveTs(InputLinesTs) }

\* the 0-based indices of the header of the section and of the lines of its callout
SectionIndicesTs ==
    findExistingCalloutIndex(InputLinesTs) .. (CalloutEndTs(InputLinesTs, findExistingCalloutIndex(InputLinesTs) + 1) - 1)

\* line is a line of the result
InOutput(line) == \E q \in DOMAIN OutputLines : OutputLines[q] = line

C27_OnlyMovedLinesBlanked ==
    (Rewritten /\ findExistingCalloutIndex(InputLinesTs) # -1 /\ MovedIndicesTs # {}) =>
        /\ \A j \in DOMAIN findTasksToMoveTs(InputLinesTs) : InOutput(findTasksToMoveTs(InputLinesTs)[j].line)
        /\ \A i \in MovedIndicesTs :
               ~startsWith(trimStart(At(InputLinesTs, i)), <<">">>) => ~InOutput(At(InputLinesTs, i))
        /\ \A i \in 0 .. (Len(InputLinesTs) - 1) :
               (i \notin MovedIndicesTs /\ i \notin SectionIndicesTs /\ trim(At(InputLinesTs, i)) # <<>>)
               => InOutput(At(InputLinesTs, i))


(***************************************************************************)
(* C28: under every list of letters the Task Letters field stores,         *)
(* sortTasks returns a permutation of its input when the letters of all    *)
(* entries of the input are in the list: the entries of the note the run   *)
(* read, sorted, are the same entries as many times.                       *)
(***************************************************************************)
\* the quoted entries among lines whose letter is in taskLetters, as tasks
RECURSIVE ListedTasksFrom(_, _)
ListedTasksFrom(lines, i) ==
    IF i >= Len(lines) THEN <<>>
    ELSE IF QuotedTaskLetter(trim(At(lines, i))) # undefined /\ IsTagged(trim(At(lines, i)))
    THEN <<[line |-> trim(At(lines, i)), index |-> i, time |-> extractTimeFromTask(trim(At(lines, i)))]>>
         \o ListedTasksFrom(lines, i + 1)
    ELSE ListedTasksFrom(lines, i + 1)

\* how often x stands in the sequence a
CountOf(a, x) == Cardinality({ k \in DOMAIN a : a[k] = x })

IsPermutation(a, b) == Len(a) = Len(b) /\ \A k \in DOMAIN a : CountOf(a, a[k]) = CountOf(b, a[k])

C28_SortIsPermutation ==
    RunDone => IsPermutation(sortTasks(ListedTasksFrom(InputLinesTs, 0)), ListedTasksFrom(InputLinesTs, 0))


(***************************************************************************)
(* C29: after the command that inserts today's events has run twice in a   *)
(* row on the journal of the day, the journal holds exactly one line for   *)
(* each of today's events.                                                 *)
(***************************************************************************)
\* the events of today, and the line of an event without its line break
TodayEvents == getTodaysEvents(settings.events, Today)
EventEntry(event) == trim(EventLine(event, Today))

\* the number of lines of text that are entry, quoted or not
EntryCount(text, entry) ==
    Cardinality({ k \in DOMAIN split(text) : trim(stripQuote(trim(split(text)[k]))) = entry })

C29_OneLinePerEvent ==
    (lastOp = "insertEvents" /\ runs = 2) =>
        \A j \in DOMAIN TodayEvents : EntryCount(fileContent, EventEntry(TodayEvents[j])) = 1


(***************************************************************************)
(* C30: once the date-range modal has been closed, by Submit or by         *)
(* dismissing it, the invocation of callback eventually returns.           *)
(***************************************************************************)
\* the modal of the invocation has been closed, and callback() has returned
ModalClosed == pc \in {"while", "await", "dismissed", "done"}
CallbackReturned == pc = "done"

C30_CallbackEventuallyReturns == ModalClosed ~> CallbackReturned

\* the same for the invocations whose modal was closed by Submit
C30_SubmittedReturns == (pc \in {"while", "await"}) ~> CallbackReturned

=============================================================================
